---- MODULE Spec2Model ----
(***************************************************************************)
(* The OTP-gated account activation and password-reset flows of            *)
(* app/routes/auth.py, as a state machine.  Request handlers are plain     *)
(* "def" endpoints, so the framework runs them on worker threads: every    *)
(* handler is split into the steps at which it reads or writes the         *)
(* process-wide dictionaries or the users table, and the steps of          *)
(* different threads interleave.                                           *)
(*                                                                         *)
(* Strings are sequences of one-character strings, so that strip, lower,   *)
(* replace, the regular expressions and the integer formatting are         *)
(* computed as the code computes them.                                     *)
(***************************************************************************)
EXTENDS Integers, Sequences, FiniteSets

VARIABLES
    users,              \* rows of the "users" table, in insertion order
    tenant_dbs,         \* names of the databases existing on the MySQL server
    otp_store,          \* auth.otp_store: code -> pending signup payload
    reset_otp_store,    \* auth.reset_otp_store: email -> {otp, timestamp}
    reset_otp_tracker,  \* auth.reset_otp_tracker: email -> [timestamps]
    now,                \* the wall clock read by datetime.utcnow() and time()
    pc,                 \* per worker thread: the step its handler is at
    req,                \* per worker thread: the request and the handler's locals
    resp,               \* per worker thread: the response its handler ended with
    spent,              \* history: (kind, code) of the codes consumed or evicted as expired
    admitted,           \* history: per email, the times of the last admitted reset requests
    user_states,        \* app.state: user id -> the session state of the account
    engines,            \* the SQLAlchemy engines opened so far, in the order of opening
    db_tables,          \* per database on a server: its tables, in listing order
    logged_out          \* history: the user ids logged out and not logged in or
                        \* connected since

\* the session store, the engines and the contents of the databases
session_vars == <<user_states, engines, db_tables, logged_out>>

vars == <<users, tenant_dbs, otp_store, reset_otp_store, reset_otp_tracker,
          now, pc, req, resp, spent, admitted, user_states, engines, db_tables,
          logged_out>>

(***************************************************************************)
(* Program constants.                                                      *)
(***************************************************************************)
RESET_MAX_PER_HOUR == 5
OTP_TTL_SECONDS == 300
RESET_WINDOW_SECONDS == 3600
OTP_RANDOM_LOW == 100000
OTP_RANDOM_HIGH == 999999

(***************************************************************************)
(* Bounds of the model.                                                    *)
(***************************************************************************)
\* how many of the values random.randint can return are drawn
NumCodes == 2
\* instants kept on each side of 0, the OTP lifetime and the reset window
Slack == 1

\* how many engines are opened in one run; further connections are refused
MaxEngines == 2

\* the longest identifier drawn from the identifier alphabet
MaxIdLen == 3

\* the most rows of a table with cells of every kind, and of a table of
\* integer rows
MaxMixedRows == 2
MaxRows == 21

\* the most words of a driver message
MaxWords == 2

\* the most schemas of a Vertica catalog
MaxSchemas == 2

Threads == {"t1", "t2"}

(***************************************************************************)
(* Strings.                                                                *)
(***************************************************************************)
UpperChars == <<"A","B","C","D","E","F","G","H","I","J","K","L","M",
                "N","O","P","Q","R","S","T","U","V","W","X","Y","Z">>
LowerChars == <<"a","b","c","d","e","f","g","h","i","j","k","l","m",
                "n","o","p","q","r","s","t","u","v","w","x","y","z">>
DigitChars == <<"0","1","2","3","4","5","6","7","8","9">>
SpaceChars == {" ", "\t", "\n"}

Range(s) == {s[i] : i \in DOMAIN s}
IsUpper(c) == c \in Range(UpperChars)
IsLower(c) == c \in Range(LowerChars)
IsDigit(c) == c \in Range(DigitChars)
IsAlnum(c) == IsUpper(c) \/ IsLower(c) \/ IsDigit(c)

\* str.lower() on one character
LowerChar(c) ==
    IF IsUpper(c)
    THEN LowerChars[CHOOSE i \in DOMAIN UpperChars : UpperChars[i] = c]
    ELSE c

\* str.lower()
Lower(s) == [i \in DOMAIN s |-> LowerChar(s[i])]

\* str.strip(): leading and trailing whitespace removed
Strip(s) ==
    LET keep == {i \in DOMAIN s : s[i] \notin SpaceChars}
    IN  IF keep = {} THEN <<>>
        ELSE LET lo == CHOOSE i \in keep : \A j \in keep : i <= j
                 hi == CHOOSE i \in keep : \A j \in keep : j <= i
             IN  SubSeq(s, lo, hi)

\* sub in s
Contains(s, sub) ==
    \E i \in 1..(Len(s) - Len(sub) + 1) : SubSeq(s, i, i + Len(sub) - 1) = sub

\* variant: only the first occurrence is replaced
Replace_First(s, ch, rep) ==
    LET at == {i \in DOMAIN s : s[i] = ch}
    IN  IF at = {} THEN s
        ELSE LET k == CHOOSE i \in at : \A j \in at : i <= j
             IN  SubSeq(s, 1, k - 1) \o rep \o SubSeq(s, k + 1, Len(s))

\* str.replace(ch, rep) for a one-character ch
RECURSIVE Replace(_, _, _)
Replace(s, ch, rep) ==
    IF s = <<>> THEN <<>>
    ELSE (IF Head(s) = ch THEN rep ELSE <<Head(s)>>) \o Replace(Tail(s), ch, rep)

\* f"{n}" for an integer n >= 0
RECURSIVE FormatInt(_)
FormatInt(n) ==
    IF n < 10 THEN <<DigitChars[n + 1]>>
    ELSE FormatInt(n \div 10) \o <<DigitChars[(n % 10) + 1]>>

\* str.isdigit()
IsDigitStr(s) == s # <<>> /\ \A i \in DOMAIN s : IsDigit(s[i])


(***************************************************************************)
(* Input validation (auth.py 56-62, 150-155, 181).                         *)
(***************************************************************************)
EmailLocalChar(c) == IsAlnum(c) \/ c \in {"_", ".", "+", "-"}
EmailDomainChar(c) == IsAlnum(c) \/ c = "-"
EmailTldChar(c) == IsAlnum(c) \/ c \in {"-", "."}

\* re.match(r"(^[a-zA-Z0-9_.+-]+@[a-zA-Z0-9-]+\.[a-zA-Z0-9-.]+$)", s)
MatchesEmailRegex(s) ==
    \E i, j \in DOMAIN s :
        /\ 1 < i /\ i + 1 < j /\ j < Len(s)
        /\ s[i] = "@" /\ s[j] = "."
        /\ \A k \in 1..(i - 1) : EmailLocalChar(s[k])
        /\ \A k \in (i + 1)..(j - 1) : EmailDomainChar(s[k])
        /\ \A k \in (j + 1)..Len(s) : EmailTldChar(s[k])

\* re.fullmatch(r"^[6-9]\d{9}$", s)
MatchesMobileRegex(s) ==
    /\ Len(s) = 10
    /\ s[1] \in {"6", "7", "8", "9"}
    /\ \A k \in 2..10 : IsDigit(s[k])

SpecialChars == {"@", "$", "!", "%", "*", "#", "?", "&"}

\* validate_password_complexity does not raise
validate_password_complexity(p) ==
    /\ \E i \in DOMAIN p : IsUpper(p[i])
    /\ \E i \in DOMAIN p : IsLower(p[i])
    /\ \E i \in DOMAIN p : IsDigit(p[i])
    /\ \E i \in DOMAIN p : p[i] \in SpecialChars

(***************************************************************************)
(* Collaborators: the password hash, the users table, the tenant name.     *)
(***************************************************************************)
\* pwd_context.hash: the salt is left out, the hash determines the password
get_password_hash(p) == <<"bcrypt">> \o p

get_user_by_email(email) == {i \in DOMAIN users : users[i].email = email}
get_user_by_mobile(mobile) == {i \in DOMAIN users : users[i].mobile_number = mobile}

\* data["email"].split("@")[0]
UsernameOf(email) ==
    LET ats == {i \in DOMAIN email : email[i] = "@"}
    IN  IF ats = {} THEN email
        ELSE SubSeq(email, 1, (CHOOSE i \in ats : \A j \in ats : i <= j) - 1)

\* the database name create_dynamic_database_for_user derives and returns
DynamicDbName(user_identifier) ==
    Replace(Replace(Lower(Strip(user_identifier)), "@", <<"_","a","t","_">>),
            ".", <<"_","d","o","t","_">>) \o <<"_","d","b">>

\* User(email=..., mobile_number=..., hashed_password=..., dynamic_db=db_name,
\* username=...) as verify_signup_otp builds it from a pending payload
UserRow(id, data) ==
    [id |-> id,
     email |-> data.email,
     mobile_number |-> data.mobile_number,
     hashed_password |-> get_password_hash(data.password),
     dynamic_db |-> DynamicDbName(data.email),
     username |-> UsernameOf(data.email)]

\* variant: the email and username columns carry no UNIQUE index
ViolatesUnique_NoIndex(row) == FALSE

\* the UNIQUE columns of the users table (models.py): email and username
ViolatesUnique(row) ==
    \E i \in DOMAIN users :
        users[i].email = row.email \/ users[i].username = row.username

(***************************************************************************)
(* Dictionaries and responses.                                             *)
(***************************************************************************)
EmptyDict == [k \in {} |-> 0]
Put(d, k, v) == [x \in (DOMAIN d) \cup {k} |-> IF x = k THEN v ELSE d[x]]
Pop(d, k) == [x \in (DOMAIN d) \ {k} |-> d[x]]
\* defaultdict(list)[k]
TrackerGet(d, k) == IF k \in DOMAIN d THEN d[k] ELSE <<>>

Response(status, error_type) == [status |-> status, error_type |-> error_type]
Ok == Response(200, "")
NoResponse == Response(0, "")

\* send_otp_to_email: the message the SMTP server is handed
send_otp_to_email(email, otp) == <<[to |-> email, otp |-> otp]>>

\* the handler of thread t returns (or raises) r
Finish(t, r) ==
    /\ pc' = [pc EXCEPT ![t] = "done"]
    /\ resp' = [resp EXCEPT ![t] = r]

Goto(t, label) ==
    /\ pc' = [pc EXCEPT ![t] = label]
    /\ resp' = resp

(***************************************************************************)
(* Inputs.                                                                 *)
(***************************************************************************)
EmailA == <<"a","@","x",".","c">>
EmailB == <<"B","@","x",".","c">>
\* the local part of EmailA at another domain
EmailAY == <<"a","@","y",".","c">>
\* passes pydantic's EmailStr, fails the handler's own regex
EmailBang == <<"!","@","x",".","c">>
Mobile1 == <<"6","0","0","0","0","0","0","0","0","1">>
Mobile2 == <<"9","0","0","0","0","0","0","0","0","2">>
PwStrong == <<"A","a","1","@","a","a","a","a">>
PwWeak == <<"a","a","a","a","a","a","a","a">>
PwNew == <<"B","b","2","#","b","b","b","b">>

\* the values random.randint(100000, 999999) is taken to return
RandomInts ==
    OTP_RANDOM_LOW..(IF OTP_RANDOM_LOW + NumCodes - 1 < OTP_RANDOM_HIGH
                     THEN OTP_RANDOM_LOW + NumCodes - 1 ELSE OTP_RANDOM_HIGH)
Codes == {FormatInt(n) : n \in RandomInts}
\* a numeric code no request ever issued, and a code that is not numeric
CodeUnissued == <<"1","2","3","4">>
CodeAlpha == <<"1","2","a","b">>

\* the instants the clock visits in the signup flow: the start, then the OTP
\* lifetime later and the seconds after it
SignupInstants == {0} \cup {OTP_TTL_SECONDS + d : d \in 0..Slack}
\* and in the reset flow: the first seconds, then the reset window later
WindowInstants == (0..Slack) \cup {RESET_WINDOW_SECONDS + d : d \in 0..Slack}

(***************************************************************************)
(* Initial state: empty users table, empty module-level dictionaries.      *)
(***************************************************************************)
Init ==
    /\ users = <<>>
    /\ tenant_dbs = {}
    /\ otp_store = EmptyDict
    /\ reset_otp_store = EmptyDict
    /\ reset_otp_tracker = EmptyDict
    /\ now = 0
    /\ pc = [t \in Threads |-> "idle"]
    /\ req = [t \in Threads |-> [op |-> "none"]]
    /\ resp = [t \in Threads |-> NoResponse]
    /\ spent = {}
    /\ admitted = EmptyDict
    /\ user_states = EmptyDict
    /\ engines = <<>>
    /\ db_tables = EmptyDict
    /\ logged_out = {}

\* time passes, to a later one of the instants
Tick(instants) ==
    /\ \E n \in instants : n > now /\ now' = n
    /\ UNCHANGED <<users, tenant_dbs, otp_store, reset_otp_store, reset_otp_tracker,
                   pc, req, resp, spent, admitted,
                   session_vars>>

\* the response has left: the worker thread is free for the next request
Return(t) ==
    /\ pc[t] = "done"
    /\ pc' = [pc EXCEPT ![t] = "idle"]
    /\ req' = [req EXCEPT ![t] = [op |-> "none"]]
    /\ resp' = [resp EXCEPT ![t] = NoResponse]
    /\ UNCHANGED <<users, tenant_dbs, otp_store, reset_otp_store, reset_otp_tracker,
                   now, spent, admitted,
                   session_vars>>

(***************************************************************************)
(* POST /signup/request_otp (auth.py 148-176).                             *)
(***************************************************************************)
\* lines 150-163: the three validations, then the email lookup
request_signup_otp(t, email, mobile_number, password) ==
    /\ pc[t] = "idle"
    /\ req' = [req EXCEPT ![t] = [op |-> "request_signup_otp", email |-> email,
                                  mobile_number |-> mobile_number,
                                  password |-> password, otp |-> <<>>,
                                  sent |-> <<>>]]
    /\ IF ~MatchesEmailRegex(email)
       THEN Finish(t, Response(422, "INVALID_EMAIL"))
       ELSE IF ~MatchesMobileRegex(mobile_number)
       THEN Finish(t, Response(422, "INVALID_MOBILE"))
       ELSE IF ~validate_password_complexity(password)
       THEN Finish(t, Response(422, "WEAK_PASSWORD"))
       ELSE IF get_user_by_email(email) # {}
       THEN Finish(t, Response(409, "EMAIL_EXISTS"))
       ELSE Goto(t, "rs_mobile")
    /\ UNCHANGED <<users, tenant_dbs, otp_store, reset_otp_store, reset_otp_tracker,
                   now, spent, admitted,
                   session_vars>>

\* variant: the code is drawn and stored before the mobile lookup
request_signup_otp_mobile_StoresFirst(t) ==
    /\ pc[t] = "rs_mobile"
    /\ \E n \in RandomInts :
        /\ otp_store' = Put(otp_store, FormatInt(n),
                            [email |-> req[t].email,
                             mobile_number |-> req[t].mobile_number,
                             password |-> req[t].password,
                             timestamp |-> now])
        /\ req' = [req EXCEPT ![t].otp = FormatInt(n)]
    /\ IF get_user_by_mobile(req[t].mobile_number) # {}
       THEN Finish(t, Response(409, "MOBILE_EXISTS"))
       ELSE Goto(t, "rs_send")
    /\ UNCHANGED <<users, tenant_dbs, reset_otp_store, reset_otp_tracker,
                   now, spent, admitted,
                   session_vars>>

\* lines 164-165: the mobile lookup
request_signup_otp_mobile(t) ==
    /\ pc[t] = "rs_mobile"
    /\ IF get_user_by_mobile(req[t].mobile_number) # {}
       THEN Finish(t, Response(409, "MOBILE_EXISTS"))
       ELSE Goto(t, "rs_store")
    /\ UNCHANGED <<users, tenant_dbs, otp_store, reset_otp_store, reset_otp_tracker,
                   now, req, spent, admitted,
                   session_vars>>

\* lines 167-174: draw the code, store the pending payload under it
request_signup_otp_store(t) ==
    /\ pc[t] = "rs_store"
    /\ \E n \in RandomInts :
        LET otp == FormatInt(n) IN
        /\ otp_store' = Put(otp_store, otp,
                            [email |-> req[t].email,
                             mobile_number |-> req[t].mobile_number,
                             password |-> req[t].password,
                             timestamp |-> now])
        /\ req' = [req EXCEPT ![t].otp = otp]
    /\ Goto(t, "rs_send")
    /\ UNCHANGED <<users, tenant_dbs, reset_otp_store, reset_otp_tracker,
                   now, spent, admitted,
                   session_vars>>

\* line 175 and send_otp_to_email (124-145): the SMTP hand-over succeeds or raises
request_signup_otp_send(t) ==
    /\ pc[t] = "rs_send"
    /\ \/ /\ req' = [req EXCEPT ![t].sent = send_otp_to_email(req[t].email, req[t].otp)]
          /\ Finish(t, Ok)
       \/ /\ req' = req
          /\ Finish(t, Response(500, "EMAIL_SEND_FAILED"))
    /\ UNCHANGED <<users, tenant_dbs, otp_store, reset_otp_store, reset_otp_tracker,
                   now, spent, admitted,
                   session_vars>>


(***************************************************************************)
(* POST /signup/verify_otp (auth.py 179-227).                              *)
(***************************************************************************)
\* lines 181-186: the format check and the lookup of the code
verify_signup_otp(t, otp_code) ==
    /\ pc[t] = "idle"
    /\ IF otp_code = <<>> \/ ~IsDigitStr(Strip(otp_code))
       THEN /\ req' = [req EXCEPT ![t] = [op |-> "verify_signup_otp",
                                          otp_code |-> otp_code]]
            /\ Finish(t, Response(400, "INVALID_OTP_FORMAT"))
       ELSE IF otp_code \notin DOMAIN otp_store
       THEN /\ req' = [req EXCEPT ![t] = [op |-> "verify_signup_otp",
                                          otp_code |-> otp_code]]
            /\ Finish(t, Response(400, "INVALID_OTP"))
       ELSE /\ req' = [req EXCEPT ![t] = [op |-> "verify_signup_otp",
                                          otp_code |-> otp_code,
                                          data |-> otp_store[otp_code],
                                          new_user |-> <<>>]]
            /\ Goto(t, "vs_expiry")
    /\ UNCHANGED <<users, tenant_dbs, otp_store, reset_otp_store, reset_otp_tracker,
                   now, spent, admitted,
                   session_vars>>

\* datetime.utcnow() - otp_time > timedelta(minutes=5), line 189
SignupOtpExpired(otp_time) == now - otp_time > OTP_TTL_SECONDS

\* lines 188-189: the age of the record read at the lookup
verify_signup_otp_expiry(t) ==
    /\ pc[t] = "vs_expiry"
    /\ IF SignupOtpExpired(req[t].data.timestamp)
       THEN Goto(t, "vs_evict")
       ELSE Goto(t, "vs_create_db")
    /\ UNCHANGED <<users, tenant_dbs, otp_store, reset_otp_store, reset_otp_tracker,
                   now, req, spent, admitted,
                   session_vars>>

\* otp_store.pop(payload.otp_code, None), line 190
EvictSignupOtp(otp_code) == Pop(otp_store, otp_code)

\* lines 190-191: the expired record is evicted and the call rejected
verify_signup_otp_evict(t) ==
    /\ pc[t] = "vs_evict"
    /\ otp_store' = EvictSignupOtp(req[t].otp_code)
    /\ spent' = spent \cup {<<"signup", req[t].otp_code>>}
    /\ Finish(t, Response(400, "OTP_EXPIRED"))
    /\ UNCHANGED <<users, tenant_dbs, reset_otp_store, reset_otp_tracker,
                   now, req, admitted,
                   session_vars>>

\* CREATE DATABASE IF NOT EXISTS `db_name` (line 110): the databases afterwards
create_dynamic_database_for_user(user_identifier) ==
    tenant_dbs \cup {DynamicDbName(user_identifier)}

\* line 194: the tenant database is created, or the statement raises
verify_signup_otp_create_db(t) ==
    /\ pc[t] = "vs_create_db"
    /\ \/ /\ tenant_dbs' = create_dynamic_database_for_user(req[t].data.email)
          /\ Goto(t, "vs_commit")
       \/ /\ tenant_dbs' = tenant_dbs
          /\ Finish(t, Response(500, "SIGNUP_ERROR"))
    /\ UNCHANGED <<users, otp_store, reset_otp_store, reset_otp_tracker,
                   now, req, spent, admitted,
                   session_vars>>

\* lines 195-203: the row handed to db.add; the table numbers its rows
NewUser(data) == UserRow(Len(users) + 1, data)

\* lines 195-206: hash, add, commit; a UNIQUE violation or a lost connection raises
verify_signup_otp_commit(t) ==
    /\ pc[t] = "vs_commit"
    /\ \/ /\ ~ViolatesUnique(NewUser(req[t].data))
          /\ users' = Append(users, NewUser(req[t].data))
          /\ req' = [req EXCEPT ![t].new_user = <<NewUser(req[t].data)>>]
          /\ Goto(t, "vs_token")
       \/ /\ users' = users
          /\ req' = req
          /\ Finish(t, Response(500, "SIGNUP_ERROR"))
    /\ UNCHANGED <<tenant_dbs, otp_store, reset_otp_store, reset_otp_tracker,
                   now, spent, admitted,
                   session_vars>>

\* variant: the success path leaves the record in otp_store
ConsumeSignupOtp_Keeps(otp_code) == otp_store

\* otp_store.pop(payload.otp_code, None), line 216
ConsumeSignupOtp(otp_code) == Pop(otp_store, otp_code)

\* lines 207-223: refresh and token, then the record is evicted; when refresh or
\* the token encoding raises, the handler's except reports SIGNUP_ERROR
verify_signup_otp_token(t) ==
    /\ pc[t] = "vs_token"
    /\ \/ /\ otp_store' = ConsumeSignupOtp(req[t].otp_code)
          /\ spent' = spent \cup {<<"signup", req[t].otp_code>>}
          /\ Finish(t, Ok)
       \/ /\ otp_store' = otp_store
          /\ spent' = spent
          /\ Finish(t, Response(500, "SIGNUP_ERROR"))
    /\ UNCHANGED <<users, tenant_dbs, reset_otp_store, reset_otp_tracker,
                   now, req, admitted,
                   session_vars>>

(***************************************************************************)
(* The session store (app/state.py).  The module is not among the sources  *)
(* at hand; it is modelled from the specification: a process-wide mapping  *)
(* from user id to a mutable session state, created on first need, whose   *)
(* life ends at logout.                                                    *)
(***************************************************************************)
\* a session state as it is created: no engine (0), no tables
NewUserState ==
    [personal_engine |-> 0, table_names |-> <<>>, original_table_names |-> <<>>]

\* get_user_state(user_id): the store once the call has returned the state
get_user_state(user_id) ==
    IF user_id \in DOMAIN user_states
    THEN user_states
    ELSE Put(user_states, user_id, NewUserState)

\* clear_user_state(user_id): the entry leaves the store
clear_user_state(user_id) == Pop(user_states, user_id)

\* variant: every request uses the state stored under one fixed key
SessionKey_Shared(current_user) == 1

\* get_user_state(current_user.id): the key a handler looks its state up under
SessionKey(current_user) == users[current_user].id

\* the handlers that hold a reference to a session state across steps
HoldsState(t, user_id) ==
    /\ pc[t] \in {"lt_store", "lp_store", "ic_connect", "ic_store"}
    /\ SessionKey(req[t].current_user) = user_id

\* the state object that left the store is still referenced by the handlers
\* that fetched it earlier: what they write to it no longer reaches the store
Orphaned(user_id) ==
    [x \in Threads |->
        IF HoldsState(x, user_id) THEN [req[x] EXCEPT !.stale = TRUE] ELSE req[x]]

(***************************************************************************)
(* Database servers, engines and tables (db_helpers.py).                   *)
(***************************************************************************)
MySql == <<"m","y","s","q","l">>
Vertica == <<"v","e","r","t","i","c","a">>
\* db_type values a client sends
VerticaMixedCase == <<"V","e","r","t","i","c","a">>
Postgres == <<"p","o","s","t","g","r","e","s">>
\* the database of the Vertica server, and a database no server has
VerticaDb == <<"v","d","b">>
MissingDb == <<"n","o","n","e">>

\* the liveness probe reaches the database: MySQL databases are the ones
\* created on the MySQL server, the Vertica server has one
DatabaseExists(dialect, database) ==
    IF dialect = "vertica" THEN database = VerticaDb ELSE database \in tenant_dbs

TablesOf(database) ==
    IF database \in DOMAIN db_tables THEN db_tables[database] ELSE <<>>

\* tables without rows
IsEmptyTable(table) == table = "empty"

\* create_engine and a successful probe: the engines afterwards
OpenEngine(owner, dialect, database) ==
    Append(engines, [owner |-> owner, dialect |-> dialect,
                     database |-> database, disposed |-> FALSE])

CanOpen == Len(engines) < MaxEngines

\* db_helpers.py 185-248: the branch taken for a db_type
PersonalDialect(db_type) ==
    IF Lower(db_type) = MySql THEN "mysql"
    ELSE IF Lower(db_type) = Vertica THEN "vertica"
    ELSE "unsupported"

\* db_helpers.py 250-255: except Exception wraps whatever was raised inside,
\* the HTTPException of the unsupported branch included, in the generic error
ConnectionError == Response(400, "CONNECTION_ERROR")

\* connect_personal_db: the possible outcomes, an engine or the error raised
connect_personal_db(owner, db_type, database) ==
    {[engine |-> 0, engines |-> engines, error |-> ConnectionError]}
    \cup
    (IF /\ PersonalDialect(db_type) # "unsupported"
        /\ DatabaseExists(PersonalDialect(db_type), database)
        /\ CanOpen
     THEN {[engine |-> Len(engines) + 1,
            engines |-> OpenEngine(owner, PersonalDialect(db_type), database),
            error |-> NoResponse]}
     ELSE {})

\* list_tables(engine)
list_tables(engine) == TablesOf(engines[engine].database)

\* pd.read_sql_query succeeds for the tables of the engine's database
CanFetch(engine, table) == table \in Range(TablesOf(engines[engine].database))

\* load_tables_from_personal_db: the names of the tables loaded, twice
load_tables_from_personal_db(engine, table_list) ==
    [loaded |-> SelectSeq(table_list, LAMBDA tbl : CanFetch(engine, tbl)),
     original |-> SelectSeq(table_list, LAMBDA tbl : CanFetch(engine, tbl))]

\* variant: the original table sequence is left as it was
disconnect_database_KeepsOriginal(user_state) ==
    [user_state EXCEPT !.personal_engine = 0,
                       !.table_names = <<>>]

\* disconnect_database(user_state): the state afterwards
disconnect_database(user_state) ==
    [user_state EXCEPT !.personal_engine = 0,
                       !.table_names = <<>>,
                       !.original_table_names = <<>>]

\* engine.dispose()
Dispose(engine) == [engines EXCEPT ![engine].disposed = TRUE]

(***************************************************************************)
(* POST /login (auth.py 230-277).  The handler reads the users table and   *)
(* writes no row of it.  A successful login fetches the account's session  *)
(* state and schedules initialize_user_context (280-307), which runs after *)
(* the response has left: pc "ic_connect" and "ic_store" are its steps.    *)
(***************************************************************************)
\* pwd_context.verify(plain_password, hashed_password)
verify_password(plain_password, hashed_password) ==
    hashed_password = get_password_hash(plain_password)

\* lines 248-250: by email first, then by mobile number
LoginLookup(username) ==
    IF get_user_by_email(username) # {}
    THEN get_user_by_email(username)
    ELSE get_user_by_mobile(username)

\* .first(): the row with the lowest id
First(rows) == CHOOSE i \in rows : \A j \in rows : i <= j

login(t, username, password) ==
    /\ pc[t] = "idle"
    /\ IF username = <<>> \/ password = <<>>
       THEN /\ req' = [req EXCEPT ![t] = [op |-> "login", username |-> username,
                                          password |-> password]]
            /\ user_states' = user_states
            /\ Finish(t, Response(400, "MISSING_CREDENTIALS"))
       ELSE IF "@" \in Range(username) /\ ~MatchesEmailRegex(username)
       THEN /\ req' = [req EXCEPT ![t] = [op |-> "login", username |-> username,
                                          password |-> password]]
            /\ user_states' = user_states
            /\ Finish(t, Response(422, "INVALID_EMAIL"))
       ELSE IF ~("@" \in Range(username)) /\ ~MatchesMobileRegex(username)
       THEN /\ req' = [req EXCEPT ![t] = [op |-> "login", username |-> username,
                                          password |-> password]]
            /\ user_states' = user_states
            /\ Finish(t, Response(422, "INVALID_MOBILE"))
       ELSE IF LoginLookup(username) = {}
       THEN /\ req' = [req EXCEPT ![t] = [op |-> "login", username |-> username,
                                          password |-> password]]
            /\ user_states' = user_states
            /\ Finish(t, Response(401, "USER_NOT_FOUND"))
       ELSE IF ~verify_password(password,
                                users[First(LoginLookup(username))].hashed_password)
       THEN /\ req' = [req EXCEPT ![t] = [op |-> "login", username |-> username,
                                          password |-> password]]
            /\ user_states' = user_states
            /\ Finish(t, Response(401, "INVALID_PASSWORD"))
       ELSE \* lines 257-271: the state is fetched, the preload scheduled, the
            \* token returned
            /\ req' = [req EXCEPT ![t] = [op |-> "login", username |-> username,
                                          password |-> password,
                                          current_user |-> First(LoginLookup(username)),
                                          engine |-> 0, stale |-> FALSE,
                                          preload |-> "scheduled"]]
            /\ user_states' =
                  get_user_state(SessionKey(First(LoginLookup(username))))
            /\ pc' = [pc EXCEPT ![t] = "ic_connect"]
            /\ resp' = [resp EXCEPT ![t] = Ok]
    /\ logged_out' = IF pc'[t] = "ic_connect"
                     THEN logged_out \ {SessionKey(First(LoginLookup(username)))}
                     ELSE logged_out
    /\ UNCHANGED <<users, tenant_dbs, otp_store, reset_otp_store, reset_otp_tracker,
                   now, spent, admitted, engines, db_tables>>

\* lines 281-295: no tenant database, or the connection to it, which may fail;
\* every exception is logged and swallowed (306-307)
initialize_user_context_connect(t) ==
    /\ pc[t] = "ic_connect"
    /\ IF users[req[t].current_user].dynamic_db = <<>>
       THEN /\ engines' = engines
            /\ req' = [req EXCEPT ![t].preload = "failed"]
            /\ Goto(t, "done")
       ELSE \E out \in connect_personal_db(req[t].current_user, MySql,
                                            users[req[t].current_user].dynamic_db) :
               /\ engines' = out.engines
               /\ req' = [req EXCEPT ![t].engine = out.engine,
                                     ![t].preload = IF out.engine = 0 THEN "failed"
                                                    ELSE "connected"]
               /\ IF out.engine = 0 THEN Goto(t, "done") ELSE Goto(t, "ic_store")
    /\ UNCHANGED <<users, tenant_dbs, otp_store, reset_otp_store, reset_otp_tracker,
                   now, spent, admitted, user_states, db_tables, logged_out>>

\* variant: the engine is assigned before the tables are listed and loaded
initialize_user_context_store_EngineFirst(t) ==
    /\ pc[t] = "ic_store"
    /\ LET key == SessionKey(req[t].current_user)
           got == load_tables_from_personal_db(req[t].engine,
                                               list_tables(req[t].engine))
       IN  \/ /\ user_states' =
                    IF req[t].stale
                    THEN user_states
                    ELSE [user_states EXCEPT ![key] =
                             [personal_engine |-> req[t].engine,
                              table_names |-> got.loaded,
                              original_table_names |-> got.original]]
              /\ req' = [req EXCEPT ![t].preload = "stored"]
           \/ /\ user_states' =
                    IF req[t].stale
                    THEN user_states
                    ELSE [user_states EXCEPT ![key].personal_engine = req[t].engine]
              /\ req' = [req EXCEPT ![t].preload = "failed"]
    /\ Goto(t, "done")
    /\ UNCHANGED <<users, tenant_dbs, otp_store, reset_otp_store, reset_otp_tracker,
                   now, spent, admitted, engines, db_tables, logged_out>>

\* lines 297-307: list, load, then the three assignments to the state object
\* fetched at login; an exception raised by the listing or the loading is
\* logged and swallowed before any of the assignments
initialize_user_context_store(t) ==
    /\ pc[t] = "ic_store"
    /\ LET key == SessionKey(req[t].current_user)
           got == load_tables_from_personal_db(req[t].engine,
                                               list_tables(req[t].engine))
       IN  \/ /\ user_states' =
                    IF req[t].stale
                    THEN user_states
                    ELSE [user_states EXCEPT ![key] =
                             [personal_engine |-> req[t].engine,
                              table_names |-> got.loaded,
                              original_table_names |-> got.original]]
              /\ req' = [req EXCEPT ![t].preload = "stored"]
           \/ /\ user_states' = user_states
              /\ req' = [req EXCEPT ![t].preload = "failed"]
    /\ Goto(t, "done")
    /\ UNCHANGED <<users, tenant_dbs, otp_store, reset_otp_store, reset_otp_tracker,
                   now, spent, admitted, engines, db_tables, logged_out>>

(***************************************************************************)
(* POST /logout (auth.py 310-326).                                         *)
(***************************************************************************)
\* variant: the handler answers without clearing the session state
logout_KeepsState(t, current_user) ==
    /\ pc[t] = "idle"
    /\ user_states' = user_states
    /\ req' = [req EXCEPT ![t] = [op |-> "logout", current_user |-> current_user]]
    /\ Finish(t, Ok)
    /\ logged_out' = logged_out \cup {SessionKey(current_user)}
    /\ UNCHANGED <<users, tenant_dbs, otp_store, reset_otp_store, reset_otp_tracker,
                   now, spent, admitted, engines, db_tables>>

\* lines 312-320: clear_user_state(current_user.id), then the answer; the
\* handlers that fetched the state earlier keep the object that left the store
logout(t, current_user) ==
    /\ pc[t] = "idle"
    /\ user_states' = clear_user_state(SessionKey(current_user))
    /\ req' = [Orphaned(SessionKey(current_user)) EXCEPT
                  ![t] = [op |-> "logout", current_user |-> current_user]]
    /\ Finish(t, Ok)
    /\ logged_out' = logged_out \cup {SessionKey(current_user)}
    /\ UNCHANGED <<users, tenant_dbs, otp_store, reset_otp_store, reset_otp_tracker,
                   now, spent, admitted, engines, db_tables>>

(***************************************************************************)
(* POST /forgot/request_otp (auth.py 420-435).                             *)
(***************************************************************************)
\* lines 422-424: the account lookup
request_password_reset(t, email) ==
    /\ pc[t] = "idle"
    /\ req' = [req EXCEPT ![t] = [op |-> "request_password_reset", email |-> email,
                                  now |-> 0, otp |-> <<>>, sent |-> <<>>]]
    /\ IF get_user_by_email(email) = {}
       THEN Finish(t, Response(404, "EMAIL_NOT_REGISTERED"))
       ELSE Goto(t, "rp_prune")
    /\ UNCHANGED <<users, tenant_dbs, otp_store, reset_otp_store, reset_otp_tracker,
                   now, spent, admitted,
                   session_vars>>

\* [ts for ts in reset_otp_tracker[email] if now - ts < 3600], line 427
PruneWindow(stamps, at) ==
    SelectSeq(stamps, LAMBDA ts : at - ts < RESET_WINDOW_SECONDS)

\* lines 426-427: read the clock, prune the window
request_password_reset_prune(t) ==
    /\ pc[t] = "rp_prune"
    /\ req' = [req EXCEPT ![t].now = now]
    /\ reset_otp_tracker' =
          Put(reset_otp_tracker, req[t].email,
              PruneWindow(TrackerGet(reset_otp_tracker, req[t].email), now))
    /\ Goto(t, "rp_check")
    /\ UNCHANGED <<users, tenant_dbs, otp_store, reset_otp_store,
                   now, spent, admitted,
                   session_vars>>

\* variant: the comparison is > instead of >=
RateLimited_OffByOne(stamps) == Len(stamps) > RESET_MAX_PER_HOUR

\* len(reset_otp_tracker[email]) >= RESET_MAX_PER_HOUR, line 428
RateLimited(stamps) == Len(stamps) >= RESET_MAX_PER_HOUR

\* lines 428-429: the rate limit
request_password_reset_check(t) ==
    /\ pc[t] = "rp_check"
    /\ IF RateLimited(TrackerGet(reset_otp_tracker, req[t].email))
       THEN Finish(t, Response(429, "RESET_OTP_LIMIT"))
       ELSE Goto(t, "rp_store")
    /\ UNCHANGED <<users, tenant_dbs, otp_store, reset_otp_store, reset_otp_tracker,
                   now, req, spent, admitted,
                   session_vars>>

\* the last RESET_MAX_PER_HOUR + 1 admission times of one email
Remember(times, at) ==
    LET all == Append(times, at)
    IN  IF Len(all) > RESET_MAX_PER_HOUR + 1 THEN Tail(all) ELSE all

\* variant: setdefault, an unconsumed earlier record of the email is kept
StoreResetOtp_KeepsEarlier(email, otp) ==
    IF email \in DOMAIN reset_otp_store
    THEN reset_otp_store
    ELSE Put(reset_otp_store, email, [otp |-> otp, timestamp |-> now])

\* reset_otp_store[email] = {"otp": otp, "timestamp": datetime.utcnow()}, line 432
StoreResetOtp(email, otp) ==
    Put(reset_otp_store, email, [otp |-> otp, timestamp |-> now])

\* lines 431-432: draw the code and store it, replacing the email's record
request_password_reset_store(t) ==
    /\ pc[t] = "rp_store"
    /\ \E n \in RandomInts :
        /\ reset_otp_store' = StoreResetOtp(req[t].email, FormatInt(n))
        /\ req' = [req EXCEPT ![t].otp = FormatInt(n)]
    /\ admitted' = Put(admitted, req[t].email,
                       Remember(TrackerGet(admitted, req[t].email), req[t].now))
    /\ Goto(t, "rp_append")
    /\ UNCHANGED <<users, tenant_dbs, otp_store, reset_otp_tracker,
                   now, spent,
                   session_vars>>

\* line 433: the request's own clock reading joins the window
request_password_reset_append(t) ==
    /\ pc[t] = "rp_append"
    /\ reset_otp_tracker' =
          Put(reset_otp_tracker, req[t].email,
              Append(TrackerGet(reset_otp_tracker, req[t].email), req[t].now))
    /\ Goto(t, "rp_send")
    /\ UNCHANGED <<users, tenant_dbs, otp_store, reset_otp_store,
                   now, req, spent, admitted,
                   session_vars>>

\* line 434 and send_otp_to_email (401-417)
request_password_reset_send(t) ==
    /\ pc[t] = "rp_send"
    /\ \/ /\ req' = [req EXCEPT ![t].sent = send_otp_to_email(req[t].email, req[t].otp)]
          /\ Finish(t, Ok)
       \/ /\ req' = req
          /\ Finish(t, Response(500, "EMAIL_SEND_FAILED"))
    /\ UNCHANGED <<users, tenant_dbs, otp_store, reset_otp_store, reset_otp_tracker,
                   now, spent, admitted,
                   session_vars>>


(***************************************************************************)
(* POST /forgot/verify_otp (auth.py 437-465).                              *)
(***************************************************************************)
\* variant: the age of the record is checked before the codes are compared
verify_reset_otp_ExpiryFirst(t, email, otp, new_password) ==
    /\ pc[t] = "idle"
    /\ req' = [req EXCEPT ![t] =
                  IF email \in DOMAIN reset_otp_store
                     /\ now - reset_otp_store[email].timestamp <= OTP_TTL_SECONDS
                     /\ reset_otp_store[email].otp = otp
                  THEN [op |-> "verify_reset_otp", email |-> email,
                        otp |-> otp, new_password |-> new_password,
                        record |-> reset_otp_store[email]]
                  ELSE [op |-> "verify_reset_otp", email |-> email,
                        otp |-> otp, new_password |-> new_password]]
    /\ IF email \notin DOMAIN reset_otp_store
       THEN /\ reset_otp_store' = reset_otp_store
            /\ Finish(t, Response(400, "OTP_MISSING"))
       ELSE IF now - reset_otp_store[email].timestamp > OTP_TTL_SECONDS
       THEN /\ reset_otp_store' = Pop(reset_otp_store, email)
            /\ Finish(t, Response(400, "OTP_EXPIRED"))
       ELSE IF reset_otp_store[email].otp # otp
       THEN /\ reset_otp_store' = reset_otp_store
            /\ Finish(t, Response(400, "INVALID_OTP"))
       ELSE /\ reset_otp_store' = reset_otp_store
            /\ Goto(t, "vr_expiry")
    /\ UNCHANGED <<users, tenant_dbs, otp_store, reset_otp_tracker,
                   now, spent, admitted,
                   session_vars>>

\* lines 439-444: the record of the email, then the comparison of the codes
verify_reset_otp(t, email, otp, new_password) ==
    /\ pc[t] = "idle"
    /\ IF email \notin DOMAIN reset_otp_store
       THEN /\ req' = [req EXCEPT ![t] = [op |-> "verify_reset_otp", email |-> email,
                                          otp |-> otp, new_password |-> new_password]]
            /\ Finish(t, Response(400, "OTP_MISSING"))
       ELSE IF reset_otp_store[email].otp # otp
       THEN /\ req' = [req EXCEPT ![t] = [op |-> "verify_reset_otp", email |-> email,
                                          otp |-> otp, new_password |-> new_password]]
            /\ Finish(t, Response(400, "INVALID_OTP"))
       ELSE /\ req' = [req EXCEPT ![t] = [op |-> "verify_reset_otp", email |-> email,
                                          otp |-> otp, new_password |-> new_password,
                                          record |-> reset_otp_store[email]]]
            /\ Goto(t, "vr_expiry")
    /\ UNCHANGED <<users, tenant_dbs, otp_store, reset_otp_store, reset_otp_tracker,
                   now, spent, admitted,
                   session_vars>>

\* datetime.utcnow() - record["timestamp"] > timedelta(minutes=5), line 446
ResetOtpExpired(timestamp) == now - timestamp > OTP_TTL_SECONDS

\* lines 446-453: the age of the record read at the lookup, then the complexity policy
verify_reset_otp_expiry(t) ==
    /\ pc[t] = "vr_expiry"
    /\ IF ResetOtpExpired(req[t].record.timestamp)
       THEN Goto(t, "vr_evict")
       ELSE IF ~validate_password_complexity(req[t].new_password)
       THEN Finish(t, Response(422, "WEAK_PASSWORD"))
       ELSE Goto(t, "vr_commit")
    /\ UNCHANGED <<users, tenant_dbs, otp_store, reset_otp_store, reset_otp_tracker,
                   now, req, spent, admitted,
                   session_vars>>

\* variant: the expired record is reported but left in reset_otp_store
EvictResetOtp_Keeps(email) == reset_otp_store

\* reset_otp_store.pop(payload.email, None), line 447
EvictResetOtp(email) == Pop(reset_otp_store, email)

\* lines 447-448: the expired record is evicted and the call rejected
verify_reset_otp_evict(t) ==
    /\ pc[t] = "vr_evict"
    /\ reset_otp_store' = EvictResetOtp(req[t].email)
    /\ spent' = spent \cup {<<"reset", req[t].otp>>}
    /\ Finish(t, Response(400, "OTP_EXPIRED"))
    /\ UNCHANGED <<users, tenant_dbs, otp_store, reset_otp_tracker,
                   now, req, admitted,
                   session_vars>>

\* variant: the reset also blanks the tenant database name of the row
SetPassword_BlanksTenant(email, new_password) ==
    [i \in DOMAIN users |->
        IF users[i].email = email
        THEN [users[i] EXCEPT !.hashed_password = get_password_hash(new_password),
                              !.dynamic_db = <<>>]
        ELSE users[i]]

\* user.hashed_password = get_password_hash(payload.new_password); db.commit()
SetPassword(email, new_password) ==
    [i \in DOMAIN users |->
        IF users[i].email = email
        THEN [users[i] EXCEPT !.hashed_password = get_password_hash(new_password)]
        ELSE users[i]]

\* lines 455-461: the account lookup and the overwrite of its credential hash
verify_reset_otp_commit(t) ==
    /\ pc[t] = "vr_commit"
    /\ IF get_user_by_email(req[t].email) = {}
       THEN /\ users' = users
            /\ Finish(t, Response(404, "USER_NOT_FOUND"))
       ELSE /\ users' = SetPassword(req[t].email, req[t].new_password)
            /\ Goto(t, "vr_pop")
    /\ UNCHANGED <<tenant_dbs, otp_store, reset_otp_store, reset_otp_tracker,
                   now, req, spent, admitted,
                   session_vars>>

\* variant: the success path leaves the record in reset_otp_store
ConsumeResetOtp_Keeps(email) == reset_otp_store

\* reset_otp_store.pop(payload.email, None), line 462
ConsumeResetOtp(email) == Pop(reset_otp_store, email)

\* lines 462-465: the record is evicted and the call succeeds
verify_reset_otp_pop(t) ==
    /\ pc[t] = "vr_pop"
    /\ reset_otp_store' = ConsumeResetOtp(req[t].email)
    /\ spent' = spent \cup {<<"reset", req[t].otp>>}
    /\ Finish(t, Ok)
    /\ UNCHANGED <<users, tenant_dbs, otp_store, reset_otp_tracker,
                   now, req, admitted,
                   session_vars>>

(***************************************************************************)
(* POST /connect_db (db.py 47-188).                                        *)
(***************************************************************************)
\* db.py 58 and 119-132: vertica has its own branch, every other db_type
\* takes the MySQL branch
ConnectDialect(db_type) ==
    IF Lower(db_type) = Vertica THEN "vertica" ELSE "mysql"

\* variant: the engine is stored in the account's state before it is probed
connect_db_StoresUnprobed(t, current_user, db_type, database) ==
    /\ pc[t] = "idle"
    /\ \/ /\ DatabaseExists(ConnectDialect(db_type), database)
          /\ CanOpen
          /\ engines' = OpenEngine(current_user, ConnectDialect(db_type), database)
          /\ user_states' = user_states
          /\ req' = [req EXCEPT ![t] = [op |-> "connect_db",
                                        current_user |-> current_user,
                                        db_type |-> db_type, database |-> database,
                                        engine |-> Len(engines) + 1,
                                        tables |-> <<>>]]
          /\ Goto(t, "cd_store")
       \/ /\ CanOpen
          /\ engines' = OpenEngine(current_user, ConnectDialect(db_type), database)
          /\ LET key == SessionKey(current_user)
             IN  user_states' =
                    [get_user_state(key) EXCEPT
                        ![key].personal_engine = Len(engines) + 1]
          /\ req' = [req EXCEPT ![t] = [op |-> "connect_db",
                                        current_user |-> current_user,
                                        db_type |-> db_type, database |-> database,
                                        engine |-> 0, tables |-> <<>>]]
          /\ Finish(t, ConnectionError)
    /\ UNCHANGED <<users, tenant_dbs, otp_store, reset_otp_store, reset_otp_tracker,
                   now, spent, admitted, db_tables, logged_out>>

\* lines 56-165: the engine is created and probed; a failed probe is reported
\* as a classified connection error (status 400)
connect_db(t, current_user, db_type, database) ==
    /\ pc[t] = "idle"
    /\ \/ /\ DatabaseExists(ConnectDialect(db_type), database)
          /\ CanOpen
          /\ engines' = OpenEngine(current_user, ConnectDialect(db_type), database)
          /\ req' = [req EXCEPT ![t] = [op |-> "connect_db",
                                        current_user |-> current_user,
                                        db_type |-> db_type, database |-> database,
                                        engine |-> Len(engines) + 1,
                                        tables |-> <<>>]]
          /\ Goto(t, "cd_store")
       \/ /\ engines' = engines
          /\ req' = [req EXCEPT ![t] = [op |-> "connect_db",
                                        current_user |-> current_user,
                                        db_type |-> db_type, database |-> database,
                                        engine |-> 0, tables |-> <<>>]]
          /\ Finish(t, ConnectionError)
    /\ UNCHANGED <<users, tenant_dbs, otp_store, reset_otp_store, reset_otp_tracker,
                   now, spent, admitted, user_states, db_tables, logged_out>>

\* lines 83-92 and 167-182: the tables are listed, the engine is stored in the
\* account's state, the listing is returned
connect_db_store(t) ==
    /\ pc[t] = "cd_store"
    /\ LET key == SessionKey(req[t].current_user)
       IN  user_states' =
              [get_user_state(key) EXCEPT ![key].personal_engine = req[t].engine]
    /\ req' = [req EXCEPT ![t].tables = list_tables(req[t].engine)]
    /\ Finish(t, Ok)
    /\ logged_out' = logged_out \ {SessionKey(req[t].current_user)}
    /\ UNCHANGED <<users, tenant_dbs, otp_store, reset_otp_store, reset_otp_tracker,
                   now, spent, admitted, engines, db_tables>>

(***************************************************************************)
(* POST /load_tables (db.py 194-261).                                      *)
(***************************************************************************)
\* lines 242-250: the preview of one table: rows, the marker of an empty table,
\* or the error text
PreviewOf(engine, table) ==
    IF ~CanFetch(engine, table) THEN "Error fetching data"
    ELSE IF IsEmptyTable(table) THEN "No data available (table is empty)."
    ELSE "rows"

\* variant: the loop stops at the first table that cannot be fetched
LoadLoop_Aborts(engine, table_names) ==
    LET bad == {i \in DOMAIN table_names : ~CanFetch(engine, table_names[i])}
        upto == IF bad = {} THEN Len(table_names)
                ELSE (CHOOSE i \in bad : \A j \in bad : i <= j) - 1
    IN  [previews |-> [tbl \in {table_names[i] : i \in 1..upto} |->
                          PreviewOf(engine, tbl)],
         loaded_tables |-> SubSeq(table_names, 1, upto)]

\* lines 216-250: the loop over the batch; each table is fetched on its own
LoadLoop(engine, table_names) ==
    [previews |-> [tbl \in Range(table_names) |-> PreviewOf(engine, tbl)],
     loaded_tables |-> SelectSeq(table_names, LAMBDA tbl : CanFetch(engine, tbl))]

\* lines 199-250: the state and its engine, then the fetches
load_tables(t, current_user, table_names) ==
    /\ pc[t] = "idle"
    /\ LET key == SessionKey(current_user)
           engine == get_user_state(key)[key].personal_engine
       IN  /\ user_states' = get_user_state(key)
           /\ IF engine = 0
              THEN /\ req' = [req EXCEPT ![t] =
                                 [op |-> "load_tables",
                                  current_user |-> current_user,
                                  table_names |-> table_names, engine |-> 0,
                                  previews |-> EmptyDict, loaded_tables |-> <<>>,
                                  stale |-> FALSE]]
                   /\ Finish(t, Response(400, "NO_ENGINE"))
              ELSE /\ req' = [req EXCEPT ![t] =
                                 [op |-> "load_tables",
                                  current_user |-> current_user,
                                  table_names |-> table_names, engine |-> engine,
                                  previews |-> LoadLoop(engine, table_names).previews,
                                  loaded_tables |->
                                     LoadLoop(engine, table_names).loaded_tables,
                                  stale |-> FALSE]]
                   /\ Goto(t, "lt_store")
    /\ UNCHANGED <<users, tenant_dbs, otp_store, reset_otp_store, reset_otp_tracker,
                   now, spent, admitted, engines, db_tables, logged_out>>

\* line 252: user_state.table_names = loaded_tables, then the response
load_tables_store(t) ==
    /\ pc[t] = "lt_store"
    /\ LET key == SessionKey(req[t].current_user)
       IN  user_states' =
              IF req[t].stale
              THEN user_states
              ELSE [user_states EXCEPT ![key].table_names = req[t].loaded_tables]
    /\ Finish(t, Ok)
    /\ UNCHANGED <<users, tenant_dbs, otp_store, reset_otp_store, reset_otp_tracker,
                   now, req, spent, admitted, engines, db_tables, logged_out>>

(***************************************************************************)
(* POST /disconnect (db.py 263-267, db_helpers.py 283-301).                *)
(***************************************************************************)
\* dispose() may raise: the error is printed and the engine dropped all the same
disconnect(t, current_user) ==
    /\ pc[t] = "idle"
    /\ LET key == SessionKey(current_user)
           state == get_user_state(key)[key]
       IN  /\ user_states' =
                 [get_user_state(key) EXCEPT ![key] = disconnect_database(state)]
           /\ IF state.personal_engine = 0
              THEN /\ engines' = engines
                   /\ req' = [req EXCEPT ![t] = [op |-> "disconnect",
                                                 current_user |-> current_user,
                                                 engine |-> 0, raised |-> FALSE]]
              ELSE \/ /\ engines' = Dispose(state.personal_engine)
                      /\ req' = [req EXCEPT ![t] =
                                    [op |-> "disconnect",
                                     current_user |-> current_user,
                                     engine |-> state.personal_engine,
                                     raised |-> FALSE]]
                   \/ /\ engines' = engines
                      /\ req' = [req EXCEPT ![t] =
                                    [op |-> "disconnect",
                                     current_user |-> current_user,
                                     engine |-> state.personal_engine,
                                     raised |-> TRUE]]
    /\ Finish(t, Ok)
    /\ UNCHANGED <<users, tenant_dbs, otp_store, reset_otp_store, reset_otp_tracker,
                   now, spent, admitted, db_tables, logged_out>>

(***************************************************************************)
(* DELETE /delete_table/{table_name} (db.py 273-305).                      *)
(***************************************************************************)
\* lines 276-285: a new engine to the tenant database; the HTTPException of
\* connect_personal_db is not caught here
delete_table(t, current_user, table_name) ==
    /\ pc[t] = "idle"
    /\ \E out \in connect_personal_db(current_user, MySql,
                                        users[current_user].dynamic_db) :
          /\ engines' = out.engines
          /\ req' = [req EXCEPT ![t] = [op |-> "delete_table",
                                        current_user |-> current_user,
                                        table_name |-> table_name,
                                        engine |-> out.engine,
                                        dropped |-> FALSE]]
          /\ IF out.engine = 0 THEN Finish(t, out.error) ELSE Goto(t, "dt_check")
    /\ UNCHANGED <<users, tenant_dbs, otp_store, reset_otp_store, reset_otp_tracker,
                   now, spent, admitted, user_states, db_tables, logged_out>>

\* lines 287-294: SHOW TABLES LIKE; the HTTPException(404) raised inside the
\* try block is an Exception, so the except clause of the same block catches
\* it and raises status 500 in its place
ExistenceCheck(engine, table_name) ==
    IF table_name \in Range(list_tables(engine))
    THEN NoResponse
    ELSE Response(500, "Error checking table existence.")

delete_table_check(t) ==
    /\ pc[t] = "dt_check"
    /\ IF ExistenceCheck(req[t].engine, req[t].table_name) = NoResponse
       THEN Goto(t, "dt_drop")
       ELSE Finish(t, ExistenceCheck(req[t].engine, req[t].table_name))
    /\ UNCHANGED <<users, tenant_dbs, otp_store, reset_otp_store, reset_otp_tracker,
                   now, req, spent, admitted, user_states, engines, db_tables, logged_out>>

\* DROP TABLE IF EXISTS: the tables of the database afterwards
DropTable(database, table_name) ==
    IF database \in DOMAIN db_tables
    THEN [db_tables EXCEPT ![database] =
             SelectSeq(db_tables[database], LAMBDA tbl : tbl # table_name)]
    ELSE db_tables

\* lines 296-305: the drop, then the table leaves the account's table_names;
\* a failing drop is reported with status 500
delete_table_drop(t) ==
    /\ pc[t] = "dt_drop"
    /\ \/ /\ db_tables' = DropTable(engines[req[t].engine].database,
                                     req[t].table_name)
          /\ LET key == SessionKey(req[t].current_user)
                 state == get_user_state(key)[key]
             IN  user_states' =
                    [get_user_state(key) EXCEPT ![key].table_names =
                        SelectSeq(state.table_names,
                                  LAMBDA tbl : tbl # req[t].table_name)]
          /\ req' = [req EXCEPT ![t].dropped = TRUE]
          /\ Finish(t, Ok)
       \/ /\ db_tables' = db_tables
          /\ user_states' = user_states
          /\ req' = req
          /\ Finish(t, Response(500, "Failed to delete table."))
    /\ UNCHANGED <<users, tenant_dbs, otp_store, reset_otp_store, reset_otp_tracker,
                   now, spent, admitted, engines, logged_out>>

(***************************************************************************)
(* GET /load_user_tables_with_preview (db.py 308-353).                     *)
(***************************************************************************)
\* lines 322-332: the state is fetched, then a new engine to the tenant database
load_user_tables_with_preview(t, current_user) ==
    /\ pc[t] = "idle"
    /\ user_states' = get_user_state(SessionKey(current_user))
    /\ \E out \in connect_personal_db(current_user, MySql,
                                        users[current_user].dynamic_db) :
          /\ engines' = out.engines
          /\ req' = [req EXCEPT ![t] = [op |-> "load_user_tables_with_preview",
                                        current_user |-> current_user,
                                        engine |-> out.engine,
                                        previews |-> <<>>,
                                        stale |-> FALSE]]
          /\ IF out.engine = 0 THEN Finish(t, out.error) ELSE Goto(t, "lp_store")
    /\ UNCHANGED <<users, tenant_dbs, otp_store, reset_otp_store, reset_otp_tracker,
                   now, spent, admitted, db_tables, logged_out>>

\* lines 334-353: every listed table is fetched; the two sequences and the
\* engine are assigned to the state fetched at the start
load_user_tables_with_preview_store(t) ==
    /\ pc[t] = "lp_store"
    /\ LET key == SessionKey(req[t].current_user)
           table_names == list_tables(req[t].engine)
       IN  /\ user_states' =
                 IF req[t].stale
                 THEN user_states
                 ELSE [user_states EXCEPT ![key] =
                          [personal_engine |-> req[t].engine,
                           table_names |-> table_names,
                           original_table_names |-> table_names]]
           /\ req' = [req EXCEPT ![t].previews = table_names]
    /\ Finish(t, Ok)
    /\ logged_out' = IF req[t].stale
                     THEN logged_out
                     ELSE logged_out \ {SessionKey(req[t].current_user)}
    /\ UNCHANGED <<users, tenant_dbs, otp_store, reset_otp_store, reset_otp_tracker,
                   now, spent, admitted, engines, db_tables>>

(***************************************************************************)
(* Specifications.                                                         *)
(***************************************************************************)
\* the codes a client submits: the ones that can be issued, a numeric one that
\* never is, and one that is not numeric
VerifyCodes == Codes \cup {CodeUnissued, CodeAlpha}

SignupSteps(t, emails, mobiles, passwords) ==
    \/ \E e \in emails, m \in mobiles, p \in passwords :
          request_signup_otp(t, e, m, p)
    \/ request_signup_otp_mobile(t)
    \/ request_signup_otp_store(t)
    \/ request_signup_otp_send(t)
    \/ \E c \in VerifyCodes : verify_signup_otp(t, c)
    \/ verify_signup_otp_expiry(t)
    \/ verify_signup_otp_evict(t)
    \/ verify_signup_otp_create_db(t)
    \/ verify_signup_otp_commit(t)
    \/ verify_signup_otp_token(t)

ResetRequestSteps(t, emails) ==
    \/ \E e \in emails : request_password_reset(t, e)
    \/ request_password_reset_prune(t)
    \/ request_password_reset_check(t)
    \/ request_password_reset_store(t)
    \/ request_password_reset_append(t)
    \/ request_password_reset_send(t)

ResetVerifySteps(t, emails, passwords) ==
    \/ \E e \in emails, c \in Codes, p \in passwords : verify_reset_otp(t, e, c, p)
    \/ verify_reset_otp_expiry(t)
    \/ verify_reset_otp_evict(t)
    \/ verify_reset_otp_commit(t)
    \/ verify_reset_otp_pop(t)

\* one worker thread: the calls follow one another
Sequential == {"t1"}

\* Signup and password reset of one account, call after call.
Next ==
    \/ Tick(SignupInstants)
    \/ \E t \in Sequential :
          \/ SignupSteps(t, {EmailB}, {Mobile1}, {PwStrong})
          \/ ResetRequestSteps(t, {EmailB})
          \/ ResetVerifySteps(t, {EmailB}, {PwNew, PwWeak})
          \/ \E username \in {EmailB, Mobile1}, password \in {PwStrong, PwNew} :
                login(t, username, password)
          \/ initialize_user_context_connect(t)
          \/ initialize_user_context_store(t)
          \/ Return(t)
Spec == Init /\ [][Next]_vars

\* The signup flow, call after call, over two emails and two mobiles.
NextSignup ==
    \/ Tick(SignupInstants)
    \/ \E t \in Sequential :
          \/ SignupSteps(t, {EmailA, EmailB, EmailBang}, {Mobile1, Mobile2},
                         {PwStrong, PwWeak})
          \/ Return(t)
SpecSignup == Init /\ [][NextSignup]_vars

\* The users table after EmailA has signed up, in a process just started.
InitRegistered ==
    /\ users = <<UserRow(1, [email |-> EmailA, mobile_number |-> Mobile1,
                             password |-> PwStrong])>>
    /\ tenant_dbs = {DynamicDbName(EmailA)}
    /\ otp_store = EmptyDict
    /\ reset_otp_store = EmptyDict
    /\ reset_otp_tracker = EmptyDict
    /\ now = 0
    /\ pc = [t \in Threads |-> "idle"]
    /\ req = [t \in Threads |-> [op |-> "none"]]
    /\ resp = [t \in Threads |-> NoResponse]
    /\ spent = {}
    /\ admitted = EmptyDict
    /\ user_states = EmptyDict
    /\ engines = <<>>
    /\ db_tables = EmptyDict
    /\ logged_out = {}

\* Reset requests of a registered account, call after call, across the window.
NextResetWindow ==
    \/ Tick(WindowInstants)
    \/ \E t \in Sequential :
          \/ ResetRequestSteps(t, {EmailA, EmailB})
          \/ Return(t)
SpecResetWindow == InitRegistered /\ [][NextResetWindow]_vars

\* A reset passcode of EmailA is pending: request_password_reset has returned.
InitResetPending ==
    /\ users = <<UserRow(1, [email |-> EmailA, mobile_number |-> Mobile1,
                             password |-> PwStrong])>>
    /\ tenant_dbs = {DynamicDbName(EmailA)}
    /\ otp_store = EmptyDict
    /\ reset_otp_store =
          Put(EmptyDict, EmailA, [otp |-> FormatInt(OTP_RANDOM_LOW), timestamp |-> 0])
    /\ reset_otp_tracker = Put(EmptyDict, EmailA, <<0>>)
    /\ now = 0
    /\ pc = [t \in Threads |-> "idle"]
    /\ req = [t \in Threads |-> [op |-> "none"]]
    /\ resp = [t \in Threads |-> NoResponse]
    /\ spent = {}
    /\ admitted = Put(EmptyDict, EmailA, <<0>>)
    /\ user_states = EmptyDict
    /\ engines = <<>>
    /\ db_tables = EmptyDict
    /\ logged_out = {}

\* Verifications of that one passcode on two worker threads, interleaved.
NextResetRace ==
    \/ Tick(SignupInstants)
    \/ \E t \in Threads :
          \/ ResetVerifySteps(t, {EmailA}, {PwNew, PwStrong})
          \/ Return(t)
SpecResetRace == InitResetPending /\ [][NextResetRace]_vars

\* Reset requests of one registered account on two worker threads, interleaved.
NextResetRequestRace ==
    \/ Tick(WindowInstants)
    \/ \E t \in Threads :
          \/ ResetRequestSteps(t, {EmailA})
          \/ Return(t)
SpecResetRequestRace == InitRegistered /\ [][NextResetRequestRace]_vars

\* A signup of EmailB is pending: request_signup_otp has returned.
InitSignupPending ==
    /\ users = <<>>
    /\ tenant_dbs = {}
    /\ otp_store =
          Put(EmptyDict, FormatInt(OTP_RANDOM_LOW),
              [email |-> EmailB, mobile_number |-> Mobile1,
               password |-> PwStrong, timestamp |-> 0])
    /\ reset_otp_store = EmptyDict
    /\ reset_otp_tracker = EmptyDict
    /\ now = 0
    /\ pc = [t \in Threads |-> "idle"]
    /\ req = [t \in Threads |-> [op |-> "none"]]
    /\ resp = [t \in Threads |-> NoResponse]
    /\ spent = {}
    /\ admitted = EmptyDict
    /\ user_states = EmptyDict
    /\ engines = <<>>
    /\ db_tables = EmptyDict
    /\ logged_out = {}

\* One verification of a code on each of two worker threads, interleaved.
NextSignupRace ==
    \/ Tick(SignupInstants)
    \/ \E t \in Threads :
          \/ \E c \in VerifyCodes : verify_signup_otp(t, c)
          \/ verify_signup_otp_expiry(t)
          \/ verify_signup_otp_evict(t)
          \/ verify_signup_otp_create_db(t)
          \/ verify_signup_otp_commit(t)
          \/ verify_signup_otp_token(t)
SpecSignupRace == InitSignupPending /\ [][NextSignupRace]_vars

\* Verifications and further requests of the pending reset, call after call,
\* with the right and a wrong code, an acceptable and a weak new password.
NextResetVerify ==
    \/ Tick(SignupInstants)
    \/ \E t \in Sequential :
          \/ ResetRequestSteps(t, {EmailA})
          \/ ResetVerifySteps(t, {EmailA, EmailB}, {PwNew, PwWeak})
          \/ Return(t)
SpecResetVerify == InitResetPending /\ [][NextResetVerify]_vars

\* Signups of two emails with the same local part, call after call.
NextSignupLocalPart ==
    \/ Tick(SignupInstants)
    \/ \E t \in Sequential :
          \/ SignupSteps(t, {EmailA, EmailAY}, {Mobile1, Mobile2}, {PwStrong})
          \/ Return(t)
SpecSignupLocalPart == Init /\ [][NextSignupLocalPart]_vars

\* Further reset requests and verifications for the account whose passcode is
\* pending, call after call.
NextResetReplace ==
    \/ Tick(SignupInstants)
    \/ \E t \in Sequential :
          \/ ResetRequestSteps(t, {EmailA})
          \/ ResetVerifySteps(t, {EmailA}, {PwNew})
          \/ Return(t)
SpecResetReplace == InitResetPending /\ [][NextResetReplace]_vars

\* Two accounts have signed up; their tenant databases hold tables, the
\* Vertica server holds one.  The process has just started.
TablesA == <<"orders", "empty">>
TablesB == <<"orders">>
InitSession ==
    /\ users = <<UserRow(1, [email |-> EmailA, mobile_number |-> Mobile1,
                             password |-> PwStrong]),
                 UserRow(2, [email |-> EmailB, mobile_number |-> Mobile2,
                             password |-> PwStrong])>>
    /\ tenant_dbs = {DynamicDbName(EmailA), DynamicDbName(EmailB)}
    /\ otp_store = EmptyDict
    /\ reset_otp_store = EmptyDict
    /\ reset_otp_tracker = EmptyDict
    /\ now = 0
    /\ pc = [t \in Threads |-> "idle"]
    /\ req = [t \in Threads |-> [op |-> "none"]]
    /\ resp = [t \in Threads |-> NoResponse]
    /\ spent = {}
    /\ admitted = EmptyDict
    /\ user_states = EmptyDict
    /\ engines = <<>>
    /\ db_tables = Put(Put(Put(EmptyDict, DynamicDbName(EmailA), TablesA),
                           DynamicDbName(EmailB), TablesB),
                       VerticaDb, <<"s.orders">>)
    /\ logged_out = {}

\* the steps of login and its preload, logout, and the handlers that load and
\* delete tables, for the accounts given
TableSteps(t, accounts, batches, tables) ==
    \/ \E u \in accounts : login(t, users[u].mobile_number, PwStrong)
    \/ initialize_user_context_connect(t)
    \/ initialize_user_context_store(t)
    \/ \E u \in accounts : logout(t, u)
    \/ \E u \in accounts, b \in batches : load_tables(t, u, b)
    \/ load_tables_store(t)
    \/ \E u \in accounts : disconnect(t, u)
    \/ \E u \in accounts, n \in tables : delete_table(t, u, n)
    \/ delete_table_check(t)
    \/ delete_table_drop(t)
    \/ \E u \in accounts : load_user_tables_with_preview(t, u)
    \/ load_user_tables_with_preview_store(t)

\* the steps of connect_db
ConnectSteps(t, accounts, db_types, databases) ==
    \/ \E u \in accounts, d \in db_types, n \in databases : connect_db(t, u, d, n)
    \/ connect_db_store(t)

SessionSteps(t, accounts, db_types, databases, batches, tables) ==
    \/ TableSteps(t, accounts, batches, tables)
    \/ ConnectSteps(t, accounts, db_types, databases)

\* One account's session, call after call; the preload of a login runs before
\* the next call.
NextSession ==
    \E t \in Sequential :
       \/ SessionSteps(t, {1}, {MySql, VerticaMixedCase, Postgres},
                       {DynamicDbName(EmailA), VerticaDb, MissingDb},
                       {<<"orders", "ghost", "empty">>, <<"empty">>},
                       {"orders", "ghost"})
       \/ Return(t)
SpecSession == InitSession /\ [][NextSession]_vars

\* One account's session without connect_db, call after call.
NextSessionTables ==
    \E t \in Sequential :
       \/ TableSteps(t, {1}, {<<"orders", "ghost", "empty">>, <<"empty">>},
                     {"orders", "ghost"})
       \/ Return(t)
SpecSessionTables == InitSession /\ [][NextSessionTables]_vars

\* Loads and deletions of one account's tables on two worker threads,
\* interleaved.
NextDeleteRace ==
    \E t \in Threads :
       \/ load_user_tables_with_preview(t, 1)
       \/ load_user_tables_with_preview_store(t)
       \/ load_tables(t, 1, <<"orders", "empty">>)
       \/ load_tables_store(t)
       \/ \E n \in {"orders", "ghost"} : delete_table(t, 1, n)
       \/ delete_table_check(t)
       \/ delete_table_drop(t)
       \/ Return(t)
SpecDeleteRace == InitSession /\ [][NextDeleteRace]_vars

\* The sessions of two accounts on two worker threads, interleaved.
NextSessionRace ==
    \E t \in Threads :
       \/ SessionSteps(t, {1, 2}, {MySql}, {DynamicDbName(EmailA)},
                       {<<"orders">>}, {"orders"})
       \/ Return(t)
SpecSessionRace == InitSession /\ [][NextSessionRace]_vars

\* Calls of create_dynamic_database_for_user on one identifier.
IdChars == {"U", "u", "@", ".", " "}
UserExampleCom == <<"U","s","e","r","@","E","x","a","m","p","l","e",".","c","o","m">>
Identifiers ==
    UNION {[1..n -> IdChars] : n \in 0..MaxIdLen} \cup {UserExampleCom}

\* the identifier is given; nothing has been called
InitNaming ==
    /\ users = <<>>
    /\ tenant_dbs = {}
    /\ otp_store = EmptyDict
    /\ reset_otp_store = EmptyDict
    /\ reset_otp_tracker = EmptyDict
    /\ now = 0
    /\ pc = [t \in Threads |-> IF t \in Sequential THEN "nm_call" ELSE "idle"]
    /\ \E id \in Identifiers :
          req = [t \in Threads |->
                    IF t \in Sequential
                    THEN [op |-> "create_dynamic_database_for_user",
                          user_identifier |-> id, db_names |-> <<>>]
                    ELSE [op |-> "none"]]
    /\ resp = [t \in Threads |-> NoResponse]
    /\ spent = {}
    /\ admitted = EmptyDict
    /\ user_states = EmptyDict
    /\ engines = <<>>
    /\ db_tables = EmptyDict
    /\ logged_out = {}

\* auth.py 386-393: the name is derived, CREATE DATABASE IF NOT EXISTS is
\* executed (it may raise), the name is returned
call_create_dynamic_database_for_user(t) ==
    /\ pc[t] \in {"nm_call", "nm_called"}
    /\ Len(req[t].db_names) < 2
    /\ \/ /\ tenant_dbs' = create_dynamic_database_for_user(req[t].user_identifier)
          /\ req' = [req EXCEPT ![t].db_names =
                        Append(@, DynamicDbName(req[t].user_identifier))]
          /\ resp' = [resp EXCEPT ![t] = Ok]
       \/ /\ tenant_dbs' = tenant_dbs
          /\ req' = req
          /\ resp' = [resp EXCEPT ![t] = Response(500, "SIGNUP_ERROR")]
    /\ pc' = [pc EXCEPT ![t] = "nm_called"]
    /\ UNCHANGED <<users, otp_store, reset_otp_store, reset_otp_tracker,
                   now, spent, admitted, session_vars>>

NextNaming == \E t \in Sequential : call_create_dynamic_database_for_user(t)
SpecNaming == InitNaming /\ [][NextNaming]_vars

\* The select statements built for one engine dialect and one table identifier.
SelectFrom == <<"S","E","L","E","C","T"," ","*"," ","F","R","O","M"," ">>
SalesOrders == <<"s","a","l","e","s",".","o","r","d","e","r","s">>
TableIdChars == {"s", ".", "o"}
TableIds ==
    UNION {[1..n -> TableIdChars] : n \in 1..MaxIdLen} \cup {SalesOrders}
\* the dialect names of SQLAlchemy engines: the two the handlers create, and
\* another one
Dialects == {"mysql", "vertica", "postgresql"}

\* the grave accent, U+0060, MySQL's identifier quote; as an element of a
\* string it is written by name
Backtick == "U+0060"

\* db.py 219-231: the preview query of load_tables
LoadTablesQuery(dialect, table) ==
    IF dialect = "mysql" THEN SelectFrom \o <<Backtick>> \o table \o <<Backtick, ";">>
    ELSE IF dialect = "vertica" THEN SelectFrom \o table \o <<";">>
    ELSE SelectFrom \o table \o <<";">>

\* db_helpers.py 267: the query of load_tables_from_personal_db
PersonalDbQuery(dialect, table) ==
    IF dialect = "vertica" THEN SelectFrom \o table
    ELSE SelectFrom \o <<Backtick>> \o table \o <<Backtick>>

InitSelect ==
    /\ users = <<>>
    /\ tenant_dbs = {}
    /\ otp_store = EmptyDict
    /\ reset_otp_store = EmptyDict
    /\ reset_otp_tracker = EmptyDict
    /\ now = 0
    /\ pc = [t \in Threads |-> IF t \in Sequential THEN "sq_build" ELSE "idle"]
    /\ \E dialect \in Dialects, table \in TableIds :
          req = [t \in Threads |->
                    IF t \in Sequential
                    THEN [op |-> "select", dialect |-> dialect, table |-> table,
                          load_tables |-> <<>>,
                          load_tables_from_personal_db |-> <<>>]
                    ELSE [op |-> "none"]]
    /\ resp = [t \in Threads |-> NoResponse]
    /\ spent = {}
    /\ admitted = EmptyDict
    /\ user_states = EmptyDict
    /\ engines = <<>>
    /\ db_tables = EmptyDict
    /\ logged_out = {}

\* both functions build their statement for the table
build_select(t) ==
    /\ pc[t] = "sq_build"
    /\ req' = [req EXCEPT
                  ![t].load_tables = LoadTablesQuery(req[t].dialect, req[t].table),
                  ![t].load_tables_from_personal_db =
                      PersonalDbQuery(req[t].dialect, req[t].table)]
    /\ pc' = [pc EXCEPT ![t] = "sq_built"]
    /\ UNCHANGED <<users, tenant_dbs, otp_store, reset_otp_store, reset_otp_tracker,
                   now, resp, spent, admitted, session_vars>>

NextSelect == \E t \in Sequential : build_select(t)
SpecSelect == InitSelect /\ [][NextSelect]_vars

(***************************************************************************)
(* Previews (db.py 32-44, 240-247, 318-345).  A value is tagged with its   *)
(* Python type: a scalar carries its text, a list its items, a dict its    *)
(* items by key.                                                           *)
(***************************************************************************)
Scalar(kind, val) == [kind |-> kind, val |-> val]
List(items) == [kind |-> "list", items |-> items]
Dict(items) == [kind |-> "dict", items |-> items]
None == Scalar("NoneType", <<>>)
NaN == Scalar("float", <<"n","a","n">>)

\* the cells a fetched table holds: NaN, another float, an integer, the
\* string "nan", NULL
Cells == {NaN, Scalar("float", <<"1",".","5">>), Scalar("int", <<"7">>),
          Scalar("str", <<"n","a","n">>), None}
Columns == {"a", "b"}
MixedRows == [Columns -> Cells]
\* row i of a table of integer rows
IntRow(i) == [c \in Columns |-> Scalar("int", FormatInt(i))]
\* the tables: the rows the database holds, in order
Tables ==
    UNION {[1..n -> MixedRows] : n \in 0..MaxMixedRows}
    \cup {[i \in 1..n |-> IntRow(i)] : n \in 0..MaxRows}

\* math.isnan(obj) for a float
IsNan(obj) == obj.kind = "float" /\ obj.val = <<"n","a","n">>

\* variant: the items of lists and dicts are returned as they are
clean_nan_Shallow(obj) ==
    IF obj.kind = "float" /\ IsNan(obj) THEN None ELSE obj

\* db.py 32-44
RECURSIVE clean_nan(_)
clean_nan(obj) ==
    IF obj.kind = "list"
    THEN List([i \in DOMAIN obj.items |-> clean_nan(obj.items[i])])
    ELSE IF obj.kind = "dict"
    THEN Dict([key \in DOMAIN obj.items |-> clean_nan(obj.items[key])])
    ELSE IF obj.kind = "float"
    THEN (IF IsNan(obj) THEN None ELSE obj)
    ELSE obj

\* df.head(n), and LIMIT n of a select
FirstRows(rows, n) == SubSeq(rows, 1, IF Len(rows) < n THEN Len(rows) ELSE n)

\* df.to_dict(orient="records")
to_dict(df) == List([i \in DOMAIN df |-> Dict(df[i])])

\* df.replace({math.nan: None}): cell by cell
ReplaceNan(df) ==
    [i \in DOMAIN df |-> [c \in DOMAIN df[i] |->
        IF IsNan(df[i][c]) THEN None ELSE df[i][c]]]

EmptyTableMarker == Scalar("str", <<"No data available (table is empty).">>)
NoPreviewMarker == Scalar("str", <<"No preview data available.">>)

\* db.py 219-247: SELECT * of the table, then the preview of the frame
LoadTablesPreview(table) ==
    IF table = <<>>
    THEN EmptyTableMarker
    ELSE LET preview_data == clean_nan(to_dict(FirstRows(table, 10)))
         IN  IF preview_data.items # <<>> THEN preview_data ELSE NoPreviewMarker

\* db.py 318-341: SELECT * ... LIMIT 20, then clean_nan_fast of the frame
UserTablesPreview(table) == to_dict(ReplaceNan(FirstRows(table, 20)))

InitPreview ==
    /\ users = <<>>
    /\ tenant_dbs = {}
    /\ otp_store = EmptyDict
    /\ reset_otp_store = EmptyDict
    /\ reset_otp_tracker = EmptyDict
    /\ now = 0
    /\ pc = [t \in Threads |-> IF t \in Sequential THEN "pv_build" ELSE "idle"]
    /\ \E table \in Tables :
          req = [t \in Threads |->
                    IF t \in Sequential
                    THEN [op |-> "preview", table |-> table,
                          load_tables |-> None,
                          load_user_tables_with_preview |-> None]
                    ELSE [op |-> "none"]]
    /\ resp = [t \in Threads |-> NoResponse]
    /\ spent = {}
    /\ admitted = EmptyDict
    /\ user_states = EmptyDict
    /\ engines = <<>>
    /\ db_tables = EmptyDict
    /\ logged_out = {}

\* both handlers build their preview of the table
build_preview(t) ==
    /\ pc[t] = "pv_build"
    /\ req' = [req EXCEPT
                  ![t].load_tables = LoadTablesPreview(req[t].table),
                  ![t].load_user_tables_with_preview =
                      UserTablesPreview(req[t].table)]
    /\ pc' = [pc EXCEPT ![t] = "pv_built"]
    /\ UNCHANGED <<users, tenant_dbs, otp_store, reset_otp_store, reset_otp_tracker,
                   now, resp, spent, admitted, session_vars>>

NextPreview == \E t \in Sequential : build_preview(t)
SpecPreview == InitPreview /\ [][NextPreview]_vars

(***************************************************************************)
(* The classification of a failed liveness probe in connect_db (db.py      *)
(* 94-112 and 139-165).  A detail is a string; the fixed texts are written *)
(* as one element each.                                                    *)
(***************************************************************************)
Words == {<<"a","c","c","e","s","s"," ","d","e","n","i","e","d">>, <<"S","S","L">>, <<"t","i","m","e","o","u","t">>, <<"u","n","k","n","o","w","n"," ","d","a","t","a","b","a","s","e">>, <<"d","a","t","a","b","a","s","e">>, <<"n","o","t"," ","f","o","u","n","d">>, <<"c","o","n","n","e","c","t","i","o","n"," ","r","e","f","u","s","e","d">>, <<"x","y","z">>}
\* the driver messages: up to MaxWords words, joined by spaces
RECURSIVE Join(_)
Join(ws) ==
    IF ws = <<>> THEN <<>>
    ELSE IF Len(ws) = 1 THEN ws[1]
    ELSE ws[1] \o <<" ">> \o Join(Tail(ws))
DriverMessages == {Join(ws) : ws \in UNION {[1..n -> Words] : n \in 0..MaxWords}}

HttpError(status, detail) == [status |-> status, detail |-> detail]

\* lines 142-162: the except clause of the MySQL probe
ClassifyMySqlError(e) ==
    LET msg == Lower(e)
    IN  HttpError(400,
          IF Contains(msg, <<"a","c","c","e","s","s"," ","d","e","n","i","e","d">>) \/ Contains(msg, <<"a","u","t","h","e","n","t","i","c","a","t","i","o","n"," ","f","a","i","l","e","d">>)
          THEN <<"Invalid username or password. Please verify your credentials.">>
          ELSE IF Contains(msg, <<"u","n","k","n","o","w","n"," ","d","a","t","a","b","a","s","e">>)
          THEN <<"Database not found. Please check the database name.">>
          ELSE IF Contains(msg, <<"c","a","n","'","t"," ","c","o","n","n","e","c","t">>) \/ Contains(msg, <<"c","o","n","n","e","c","t","i","o","n"," ","r","e","f","u","s","e","d">>)
          THEN <<"Unable to reach database host. Please check host and port.">>
          ELSE IF Contains(msg, <<"t","i","m","e","o","u","t">>)
          THEN <<"Connection timed out. Please ensure the database server is reachable.">>
          ELSE IF Contains(msg, <<"h","o","s","t">>) /\ Contains(msg, <<"n","o","t"," ","k","n","o","w","n">>)
          THEN <<"Invalid host address. Please check the hostname or IP.">>
          ELSE IF Contains(msg, <<"s","s","l">>)
          THEN <<"SSL connection error. Please verify SSL configuration.">>
          ELSE IF Contains(msg, <<"t","o","o"," ","m","a","n","y"," ","c","o","n","n","e","c","t","i","o","n","s">>)
          THEN <<"Too many open connections. Try again later.">>
          ELSE IF Contains(msg, <<"c","o","u","l","d"," ","n","o","t"," ","c","o","n","n","e","c","t">>) \/ Contains(msg, <<"f","a","i","l","e","d"," ","t","o"," ","e","s","t","a","b","l","i","s","h">>)
          THEN <<"Could not establish connection. Please check settings.">>
          ELSE <<"Unexpected database error: ">> \o e)

\* lines 94-112: the except clause of the Vertica probe
ClassifyVerticaError(e) ==
    LET msg == Lower(e)
    IN  HttpError(400,
          IF Contains(msg, <<"s","s","l">>) \/ Contains(msg, <<"t","l","s">>)
          THEN <<"SSL/TLS configuration mismatch. Try disabling SSL or check server TLS settings.">>
          ELSE IF Contains(msg, <<"a","u","t","h","e","n","t","i","c","a","t","i","o","n"," ","f","a","i","l","e","d">>) \/ Contains(msg, <<"i","n","v","a","l","i","d"," ","u","s","e","r">>)
          THEN <<"Invalid Vertica username or password.">>
          ELSE IF Contains(msg, <<"c","o","n","n","e","c","t","i","o","n"," ","r","e","f","u","s","e","d">>) \/ Contains(msg, <<"t","i","m","e","o","u","t">>)
          THEN <<"Cannot reach Vertica server. Check host/port.">>
          ELSE IF Contains(msg, <<"d","a","t","a","b","a","s","e">>) /\ Contains(msg, <<"n","o","t"," ","f","o","u","n","d">>)
          THEN <<"Specified Vertica database not found.">>
          ELSE <<"Could not establish Vertica connection. Please verify settings.">>)

InitClassify ==
    /\ users = <<>>
    /\ tenant_dbs = {}
    /\ otp_store = EmptyDict
    /\ reset_otp_store = EmptyDict
    /\ reset_otp_tracker = EmptyDict
    /\ now = 0
    /\ pc = [t \in Threads |-> IF t \in Sequential THEN "ce_probe" ELSE "idle"]
    /\ \E e \in DriverMessages :
          req = [t \in Threads |->
                    IF t \in Sequential
                    THEN [op |-> "probe", e |-> e,
                          mysql |-> HttpError(0, <<>>),
                          vertica |-> HttpError(0, <<>>)]
                    ELSE [op |-> "none"]]
    /\ resp = [t \in Threads |-> NoResponse]
    /\ spent = {}
    /\ admitted = EmptyDict
    /\ user_states = EmptyDict
    /\ engines = <<>>
    /\ db_tables = EmptyDict
    /\ logged_out = {}

\* the probe of either path fails with the message: what connect_db raises
classify_probe_failure(t) ==
    /\ pc[t] = "ce_probe"
    /\ req' = [req EXCEPT ![t].mysql = ClassifyMySqlError(req[t].e),
                          ![t].vertica = ClassifyVerticaError(req[t].e)]
    /\ pc' = [pc EXCEPT ![t] = "ce_raised"]
    /\ UNCHANGED <<users, tenant_dbs, otp_store, reset_otp_store, reset_otp_tracker,
                   now, resp, spent, admitted, session_vars>>

NextClassify == \E t \in Sequential : classify_probe_failure(t)
SpecClassify == InitClassify /\ [][NextClassify]_vars

(***************************************************************************)
(* list_tables on a Vertica engine (db_helpers.py 119-145).  A catalog is  *)
(* the sequence of its schemas: name, system flag, non-system tables, and  *)
(* whether the query of its tables raises.                                 *)
(***************************************************************************)
SchemaNames == {<<"a">>, <<"b">>, <<"c">>}
Schemas ==
    [name : SchemaNames, is_system_schema : BOOLEAN,
     tables : {<<<<"t">>>>, <<<<"t">>, <<"u">>>>}, raises : BOOLEAN]
Catalogs ==
    {cat \in UNION {[1..n -> Schemas] : n \in 0..MaxSchemas} :
        \A i, j \in DOMAIN cat : i # j => cat[i].name # cat[j].name}

\* f"{schema}.{row[0]}" for the rows of one schema
Qualified(schema) ==
    [i \in DOMAIN schema.tables |-> schema.name \o <<".">> \o schema.tables[i]]

\* variant: the first schema whose query raises ends the listing
RECURSIVE VerticaTables_Aborts(_)
VerticaTables_Aborts(schemas) ==
    IF schemas = <<>> THEN <<>>
    ELSE IF Head(schemas).raises THEN <<>>
    ELSE Qualified(Head(schemas)) \o VerticaTables_Aborts(Tail(schemas))

\* lines 132-143: the loop over the schemas; a query that raises is logged
RECURSIVE VerticaTables(_)
VerticaTables(schemas) ==
    IF schemas = <<>> THEN <<>>
    ELSE (IF Head(schemas).raises THEN <<>> ELSE Qualified(Head(schemas)))
         \o VerticaTables(Tail(schemas))

\* lines 121-145: the non-system schemas, then their tables; the listing is
\* empty when the query of the schemas raises
VerticaListTables(catalog, schema_query_raises) ==
    IF schema_query_raises THEN <<>>
    ELSE VerticaTables(SelectSeq(catalog, LAMBDA sch : ~sch.is_system_schema))

InitListing ==
    /\ users = <<>>
    /\ tenant_dbs = {}
    /\ otp_store = EmptyDict
    /\ reset_otp_store = EmptyDict
    /\ reset_otp_tracker = EmptyDict
    /\ now = 0
    /\ pc = [t \in Threads |-> IF t \in Sequential THEN "vl_list" ELSE "idle"]
    /\ \E catalog \in Catalogs :
          req = [t \in Threads |->
                    IF t \in Sequential
                    THEN [op |-> "list_tables", catalog |-> catalog,
                          schemas_listed |-> FALSE, tables |-> <<>>]
                    ELSE [op |-> "none"]]
    /\ resp = [t \in Threads |-> NoResponse]
    /\ spent = {}
    /\ admitted = EmptyDict
    /\ user_states = EmptyDict
    /\ engines = <<>>
    /\ db_tables = EmptyDict
    /\ logged_out = {}

\* list_tables(engine) on the Vertica engine of the catalog
list_tables_vertica(t) ==
    /\ pc[t] = "vl_list"
    /\ \E schema_query_raises \in BOOLEAN :
          req' = [req EXCEPT
                    ![t].schemas_listed = ~schema_query_raises,
                    ![t].tables =
                        VerticaListTables(req[t].catalog, schema_query_raises)]
    /\ pc' = [pc EXCEPT ![t] = "vl_listed"]
    /\ UNCHANGED <<users, tenant_dbs, otp_store, reset_otp_store, reset_otp_tracker,
                   now, resp, spent, admitted, session_vars>>

NextListing == \E t \in Sequential : list_tables_vertica(t)
SpecListing == InitListing /\ [][NextListing]_vars

(***************************************************************************)
(* Properties.                                                             *)
(***************************************************************************)
FiveMinutes == 5 * 60
OneHour == 60 * 60
InvalidOtp == Response(400, "INVALID_OTP")
OtpExpired == Response(400, "OTP_EXPIRED")
SignupError == Response(500, "SIGNUP_ERROR")
RateLimitError == Response(429, "RESET_OTP_LIMIT")

\* C1: a signup passcode is accepted at most once.  A successful
\* verify_signup_otp leaves its code out of otp_store; only the store step of
\* request_signup_otp puts a code (back) into otp_store; and a verify_signup_otp
\* called with a numeric code that is not in otp_store ends at once with the
\* invalid/expired-OTP error and leaves the users table as it was.
C1_SignupCodeAcceptedOnce ==
    [][\A t \in Threads :
        /\ (pc[t] = "vs_token" /\ resp'[t] = Ok)
              => req[t].otp_code \notin DOMAIN otp_store'
        /\ \A c \in DOMAIN otp_store' :
              c \notin DOMAIN otp_store
                 => \E u \in Threads : pc[u] = "rs_store" /\ req'[u].otp = c
        /\ (/\ pc[t] = "idle" /\ pc'[t] # "idle"
            /\ req'[t].op = "verify_signup_otp"
            /\ req'[t].otp_code \in Codes
            /\ req'[t].otp_code \notin DOMAIN otp_store)
              => (pc'[t] = "done" /\ resp'[t] = InvalidOtp /\ users' = users)
      ]_vars

\* C1 witness: no time has passed, so the code was consumed by a successful
\* verification and not by expiry; it was not stored again; the second
\* verification of it has just been rejected.
C1_Witness ==
    \E t \in Threads :
        /\ now = 0
        /\ pc[t] = "done"
        /\ req[t].op = "verify_signup_otp"
        /\ resp[t] = InvalidOtp
        /\ <<"signup", req[t].otp_code>> \in spent
        /\ req[t].otp_code \notin DOMAIN otp_store
        /\ users # <<>>

\* a verify_reset_otp call that has overwritten the credential hash: it is about
\* to evict the record and return success, or has just done so
ResetAccepted(t) ==
    /\ req[t].op = "verify_reset_otp"
    /\ pc[t] = "vr_pop" \/ (pc[t] = "done" /\ resp[t] = Ok)

\* C2: no reset passcode is accepted twice under concurrency: of two
\* verify_reset_otp calls for the same email and the same code, running on two
\* threads, at most one overwrites the credential hash and returns success.
C2_ResetCodeAcceptedOnce ==
    \A t, u \in Threads :
        (t # u /\ ResetAccepted(t) /\ ResetAccepted(u))
           => ~(req[t].email = req[u].email /\ req[t].otp = req[u].otp)

\* C3: a passcode older than five minutes at the age check is rejected although
\* the code is the stored one: the call goes on to evict it, creates no account
\* and changes no credential, ends with the expired-OTP error, and the record
\* is then no longer in otp_store / reset_otp_store.
C3_ExpiredRejectedAndEvicted ==
    [][\A t \in Threads :
        /\ (/\ pc[t] = "vs_expiry" /\ pc'[t] # pc[t]
            /\ now - req[t].data.timestamp > FiveMinutes)
              => (pc'[t] = "vs_evict" /\ users' = users)
        /\ (pc[t] = "vs_evict" /\ pc'[t] # pc[t])
              => /\ pc'[t] = "done" /\ resp'[t] = OtpExpired
                 /\ req[t].otp_code \notin DOMAIN otp_store'
                 /\ users' = users
        /\ (/\ pc[t] = "vr_expiry" /\ pc'[t] # pc[t]
            /\ now - req[t].record.timestamp > FiveMinutes)
              => (pc'[t] = "vr_evict" /\ users' = users)
        /\ (pc[t] = "vr_evict" /\ pc'[t] # pc[t])
              => /\ pc'[t] = "done" /\ resp'[t] = OtpExpired
                 /\ req[t].email \notin DOMAIN reset_otp_store'
                 /\ users' = users
      ]_vars

\* C3 witness: a reset verification with the correct code and an acceptable new
\* password has just been rejected as expired, after a signup verification
\* created the account; the credential is still the one of the signup.
C3_Witness ==
    \E t \in Threads :
        /\ pc[t] = "done"
        /\ req[t].op = "verify_reset_otp"
        /\ resp[t] = OtpExpired
        /\ req[t].otp = req[t].record.otp
        /\ validate_password_complexity(req[t].new_password)
        /\ now - req[t].record.timestamp > FiveMinutes
        /\ req[t].email \notin DOMAIN reset_otp_store
        /\ \E i \in DOMAIN users :
              /\ users[i].email = req[t].email
              /\ users[i].hashed_password = get_password_hash(PwStrong)

\* the admissions among the remembered ones that lie less than an hour before at
AdmittedWithin(email, at) ==
    {i \in DOMAIN TrackerGet(admitted, email) : at - admitted[email][i] < OneHour}

\* C4: sequential reset requests of one email.  No six admitted requests lie
\* within one rolling hour; a request is rejected, with the rate-limit error and
\* without a new passcode stored, exactly when five admitted requests lie less
\* than 3600 s before it, so that it is admitted again once the oldest of them
\* is 3600 s or more in the past.
C4_ResetRateLimit ==
    /\ [](\A e \in DOMAIN admitted :
            Len(admitted[e]) = 6 => admitted[e][6] - admitted[e][1] >= OneHour)
    /\ [][\A t \in Threads :
            (pc[t] = "rp_check" /\ pc'[t] # pc[t]) =>
               IF Cardinality(AdmittedWithin(req[t].email, req[t].now)) >= 5
               THEN /\ pc'[t] = "done" /\ resp'[t] = RateLimitError
                    /\ reset_otp_store' = reset_otp_store
               ELSE pc'[t] = "rp_store"
       ]_vars

\* C4 witness: five requests were admitted, and a later one has passed the
\* rate limit because the oldest of the five is an hour or more in the past.
C4_Witness ==
    \E t \in Threads :
        /\ pc[t] = "rp_store"
        /\ Len(TrackerGet(admitted, req[t].email)) >= 5
        /\ req[t].now - admitted[req[t].email][1] >= OneHour
        /\ Cardinality(AdmittedWithin(req[t].email, req[t].now)) = 4

ValidSignupPayload(r) ==
    /\ MatchesEmailRegex(r.email)
    /\ MatchesMobileRegex(r.mobile_number)
    /\ validate_password_complexity(r.password)

\* another pending signup holds the email or the mobile of request r
PendingElsewhere(r) ==
    \E c \in DOMAIN otp_store :
        /\ c # r.otp
        /\ otp_store[c].email = r.email \/ otp_store[c].mobile_number = r.mobile_number

RegisteredAlready(r) ==
    get_user_by_email(r.email) # {} \/ get_user_by_mobile(r.mobile_number) # {}

\* C5: a valid request_signup_otp whose email or mobile is held by a pending
\* signup, or by a registered account, ends with the conflict error.
C5_SecondRequestConflicts ==
    \A t \in Threads :
        (/\ pc[t] = "done"
         /\ req[t].op = "request_signup_otp"
         /\ ValidSignupPayload(req[t])
         /\ PendingElsewhere(req[t]) \/ RegisteredAlready(req[t]))
           => resp[t].status = 409

\* C6: no two persisted accounts share an email, and no two share a mobile.
C6_EmailAndMobileUnique ==
    \A i, j \in DOMAIN users :
        i # j => /\ users[i].email # users[j].email
                 /\ users[i].mobile_number # users[j].mobile_number

\* nameFor of the specification: lower-case, trim, '@' -> '_at_', '.' -> '_dot_',
\* append '_db'
NameFor(identifier) ==
    Replace(Replace(Strip(Lower(identifier)), "@", <<"_","a","t","_">>),
            ".", <<"_","d","o","t","_">>) \o <<"_","d","b">>

ShortCircuitErrors ==
    {"INVALID_EMAIL", "INVALID_MOBILE", "WEAK_PASSWORD", "EMAIL_EXISTS", "MOBILE_EXISTS"}

\* C8: a request_signup_otp that ends with a validation or conflict error has
\* drawn no code and handed nothing to the SMTP server, and none of its steps
\* changed otp_store.
C8_SignupRequestShortCircuits ==
    /\ [](\A t \in Threads :
            (/\ pc[t] = "done"
             /\ req[t].op = "request_signup_otp"
             /\ resp[t].error_type \in ShortCircuitErrors)
               => (req[t].otp = <<>> /\ req[t].sent = <<>>))
    /\ [][\A t \in Threads :
            (/\ pc[t] \in {"idle", "rs_mobile"}
             /\ pc'[t] \in {"rs_mobile", "rs_store", "done"}
             /\ req'[t].op = "request_signup_otp")
               => otp_store' = otp_store
       ]_vars

\* C8 witness: a request has just been refused because its mobile is
\* registered, while another signup is pending.
C8_Witness ==
    \E t \in Threads :
        /\ pc[t] = "done"
        /\ req[t].op = "request_signup_otp"
        /\ resp[t] = Response(409, "MOBILE_EXISTS")
        /\ DOMAIN otp_store # {}

\* C9: a verify_signup_otp that ends with the generic signup failure has
\* persisted no account, and its passcode record is still in otp_store.
C9_FailedProvisioningKeepsRetryPath ==
    \A t \in Threads :
        (/\ pc[t] = "done"
         /\ req[t].op = "verify_signup_otp"
         /\ resp[t] = SignupError)
           => /\ req[t].new_user = <<>>
              /\ req[t].otp_code \in DOMAIN otp_store

\* C10: ISSUED -> (CONSUMED | EXPIRED), both terminal: a request never stores a
\* code value that was consumed or evicted as expired before, and
\* request_signup_otp never stores a code value that is pending in otp_store.
C10_CodeValueNeverReissued ==
    [][\A t \in Threads :
        /\ (pc[t] = "rs_store" /\ pc'[t] # pc[t])
              => /\ <<"signup", req'[t].otp>> \notin spent
                 /\ req'[t].otp \notin DOMAIN otp_store
        /\ (pc[t] = "rp_store" /\ pc'[t] # pc[t])
              => <<"reset", req'[t].otp>> \notin spent
      ]_vars

\* C11: at the commit of a verify_signup_otp whose pending email and mobile
\* are not registered (the code was stored and unexpired and the tenant database
\* was created), the users table accepts the new row, so the account can be
\* persisted: also for a@y.c after a@x.c has signed up.
C11_UnregisteredSignupPersists ==
    \A t \in Threads :
        (/\ pc[t] = "vs_commit"
         /\ get_user_by_email(req[t].data.email) = {}
         /\ get_user_by_mobile(req[t].data.mobile_number) = {})
           => ~ViolatesUnique(NewUser(req[t].data))

\* the code InitResetPending holds for EmailA, and the other one
EarlierCode == FormatInt(OTP_RANDOM_LOW)
NewerCode == FormatInt(OTP_RANDOM_LOW + 1)

\* C12: reset_otp_store has one record per email.  The store step of an
\* admitted request_password_reset makes the code it drew the email's record and
\* touches no other email's record; a verify_reset_otp with a code that differs
\* from the email's record ends with the mismatch error and changes nothing;
\* and the credential is only overwritten by a call whose code is the record's.
C12_NewestResetCodeOnly ==
    [][\A t \in Threads :
        /\ (pc[t] = "rp_store" /\ pc'[t] # pc[t])
              => /\ reset_otp_store'[req[t].email].otp = req'[t].otp
                 /\ reset_otp_store'[req[t].email].timestamp = now
                 /\ \A e \in DOMAIN reset_otp_store' :
                       e # req[t].email
                          => e \in DOMAIN reset_otp_store
                             /\ reset_otp_store'[e] = reset_otp_store[e]
        /\ (/\ pc[t] = "idle" /\ pc'[t] # "idle"
            /\ req'[t].op = "verify_reset_otp"
            /\ req'[t].email \in DOMAIN reset_otp_store
            /\ reset_otp_store[req'[t].email].otp # req'[t].otp)
              => /\ pc'[t] = "done" /\ resp'[t] = InvalidOtp
                 /\ users' = users /\ reset_otp_store' = reset_otp_store
        /\ (pc[t] = "vr_commit" /\ pc'[t] = "vr_pop")
              => /\ req[t].email \in DOMAIN reset_otp_store
                 /\ reset_otp_store[req[t].email].otp = req[t].otp
      ]_vars

\* C12 witness: exactly one request was admitted after the pending one and it
\* drew the other code; a verification with the earlier code has just failed
\* with the mismatch error.
C12_Witness ==
    \E t \in Threads :
        /\ pc[t] = "done"
        /\ req[t].op = "verify_reset_otp"
        /\ req[t].otp = EarlierCode
        /\ resp[t] = InvalidOtp
        /\ Len(TrackerGet(admitted, req[t].email)) = 2
        /\ req[t].email \in DOMAIN reset_otp_store
        /\ reset_otp_store[req[t].email].otp = NewerCode

NoRecord == Response(400, "OTP_MISSING")

\* C13: the commit step of a successful verify_reset_otp makes the account's
\* hash the hash of the new credential, its last step removes the email's
\* record and answers success, and a verify_reset_otp for an email without a
\* record ends with the no-record error, whatever the code, and leaves the
\* users table as it was.
C13_ResetOverwritesAndEvicts ==
    [][\A t \in Threads :
        /\ (pc[t] = "vr_commit" /\ pc'[t] = "vr_pop")
              => \A i \in DOMAIN users' :
                    users'[i].email = req[t].email
                       => users'[i].hashed_password =
                             get_password_hash(req[t].new_password)
        /\ (pc[t] = "vr_pop" /\ pc'[t] # pc[t])
              => /\ pc'[t] = "done" /\ resp'[t] = Ok
                 /\ req[t].email \notin DOMAIN reset_otp_store'
                 /\ users' = users
        /\ (/\ pc[t] = "idle" /\ pc'[t] # "idle"
            /\ req'[t].op = "verify_reset_otp"
            /\ req'[t].email \notin DOMAIN reset_otp_store)
              => /\ pc'[t] = "done" /\ resp'[t] = NoRecord
                 /\ users' = users
      ]_vars

\* C13 witness: the pending code was accepted (the hash is the one of the new
\* credential), no request was admitted since and no time has passed, and the
\* next verification with the same code has just failed with the no-record error.
C13_Witness ==
    \E t \in Threads :
        /\ now = 0
        /\ pc[t] = "done"
        /\ req[t].op = "verify_reset_otp"
        /\ req[t].otp = EarlierCode
        /\ resp[t] = NoRecord
        /\ Len(TrackerGet(admitted, req[t].email)) = 1
        /\ \E i \in DOMAIN users :
              /\ users[i].email = req[t].email
              /\ users[i].hashed_password = get_password_hash(PwNew)

(***************************************************************************)
(* Sessions, engines and tables.                                           *)
(***************************************************************************)
\* the table a finished delete_table named is absent from the tenant database
\* and the call dropped nothing
DeleteOfMissing(t) ==
    /\ pc[t] = "done"
    /\ req[t].op = "delete_table"
    /\ req[t].engine # 0
    /\ ~req[t].dropped
    /\ req[t].table_name \notin Range(list_tables(req[t].engine))

\* C14: delete_table on an identifier that is not in the tenant database
\* fails with status 404 (and drops nothing, and leaves the table sequence).
C14_MissingTableIsNotFound ==
    \A t \in Threads : DeleteOfMissing(t) => resp[t].status = 404

\* a connect_db request whose db_type is neither mysql nor vertica, in any case
UnsupportedTag(t) ==
    /\ req[t].op = "connect_db"
    /\ Lower(req[t].db_type) \notin {MySql, Vertica}

\* C15: connect_db with a dialect tag other than mysql and vertica fails: no
\* engine is created for the request, none is stored, the answer is an error.
C15_UnsupportedDialectRefused ==
    \A t \in Threads :
       UnsupportedTag(t) =>
          /\ req[t].engine = 0
          /\ pc[t] # "cd_store"
          /\ pc[t] = "done" => resp[t].status # 200

\* a load_tables call has answered 200
LoadedBatch(t) ==
    /\ pc[t] = "done"
    /\ req[t].op = "load_tables"
    /\ resp[t] = Ok

\* the identifiers of its batch that the engine's database does not hold
Unfetched(t) ==
    {tbl \in Range(req[t].table_names) :
        tbl \notin Range(TablesOf(engines[req[t].engine].database))}

\* C16: when exactly one identifier of a load_tables batch cannot be fetched,
\* the previews have an entry for every identifier of the batch (rows or the
\* empty-table marker for the others, an error string for that one), and the
\* session's table sequence is the other identifiers in request order.
C16_BadTableDoesNotAbortBatch ==
    \A t \in Threads :
       (LoadedBatch(t) /\ Cardinality(Unfetched(t)) = 1) =>
          /\ DOMAIN req[t].previews = Range(req[t].table_names)
          /\ \A tbl \in Range(req[t].table_names) :
                req[t].previews[tbl] =
                   IF tbl \in Unfetched(t) THEN "Error fetching data"
                   ELSE IF IsEmptyTable(tbl)
                        THEN "No data available (table is empty)."
                        ELSE "rows"
          /\ user_states[SessionKey(req[t].current_user)].table_names =
                SelectSeq(req[t].table_names, LAMBDA tbl : tbl \notin Unfetched(t))

\* a batch of three with the missing table in the middle has been loaded
C16_Witness ==
    \E t \in Threads :
       /\ LoadedBatch(t)
       /\ req[t].table_names = <<"orders", "ghost", "empty">>
       /\ Unfetched(t) = {"ghost"}
       /\ req[t].previews["ghost"] = "Error fetching data"
       /\ req[t].previews["empty"] = "No data available (table is empty)."
       /\ user_states[SessionKey(req[t].current_user)].table_names =
             <<"orders", "empty">>

\* C17: in every state reached by login preload, load_tables,
\* load_user_tables_with_preview, delete_table, disconnect and logout, the
\* working and the original table sequence of a session state hold the same
\* names in the same order.
C17_WorkingAndOriginalAgree ==
    \A u \in DOMAIN user_states :
       user_states[u].table_names = user_states[u].original_table_names

\* the engines opened for an account and not disposed
LiveEngines(owner) ==
    {e \in DOMAIN engines : engines[e].owner = owner /\ ~engines[e].disposed}

\* C18: each account has at most one live engine at any time.
C18_OneLiveEnginePerAccount ==
    \A owner \in DOMAIN users : Cardinality(LiveEngines(owner)) <= 1

\* the account a request is made for
AccountOf(t) == users[req[t].current_user].id

\* the session state stored for a user id, if any
SessionOf(store, user_id) ==
    IF user_id \in DOMAIN store THEN <<store[user_id]>> ELSE <<>>

\* C19: no cross-account sharing.  After every step, an engine held in a
\* session state was opened for that state's account, the engine load_tables
\* has read was opened for the account of its request, an engine is disposed
\* only by a disconnect of its own account, and the session state of an
\* account changes only in a step of a request of that account.
C19_NoCrossAccountSharing ==
    [][/\ \A u \in DOMAIN user_states' :
            user_states'[u].personal_engine # 0 =>
               users'[engines'[user_states'[u].personal_engine].owner].id = u
       /\ \A t \in Threads :
            pc'[t] = "lt_store" =>
               engines'[req'[t].engine].owner = req'[t].current_user
       /\ \A e \in DOMAIN engines :
            (engines'[e].disposed /\ ~engines[e].disposed) =>
               \E t \in Threads :
                  /\ pc'[t] # pc[t]
                  /\ req'[t].op = "disconnect"
                  /\ req'[t].current_user = engines[e].owner
       /\ \A u \in (DOMAIN user_states) \cup (DOMAIN user_states') :
            SessionOf(user_states', u) # SessionOf(user_states, u) =>
               \E t \in Threads :
                  /\ pc'[t] # pc[t]
                  /\ users[req'[t].current_user].id = u
      ]_vars

\* account 1 loads tables through its own engine while account 2 has just
\* disconnected, disposing its own
C19_Witness ==
    \E t1, t2 \in Threads :
       /\ pc[t1] = "lt_store"
       /\ req[t1].current_user = 1
       /\ ~engines[req[t1].engine].disposed
       /\ pc[t2] = "done"
       /\ req[t2].op = "disconnect"
       /\ req[t2].current_user = 2
       /\ \E e \in DOMAIN engines : engines[e].owner = 2 /\ engines[e].disposed

\* the session state of a user id holds no engine and no tables
SessionEmpty(store, user_id) ==
    \/ user_id \notin DOMAIN store
    \/ /\ store[user_id].personal_engine = 0
       /\ store[user_id].table_names = <<>>
       /\ store[user_id].original_table_names = <<>>

DisconnectStep(t) ==
    /\ pc[t] = "idle"
    /\ pc'[t] = "done"
    /\ req'[t].op = "disconnect"

\* C21: disconnect always answers success, with no engine in the session and
\* when the disposal of the engine raises alike, and the session state holds
\* no engine and empty working and original table sequences afterwards.
C21_DisconnectAlwaysSucceeds ==
    [][\A t \in Threads :
          DisconnectStep(t) =>
             /\ resp'[t] = Ok
             /\ SessionEmpty(user_states', users[req'[t].current_user].id)
             /\ users[req'[t].current_user].id \in DOMAIN user_states'
      ]_vars

\* a disconnect whose disposal raised has answered
DisconnectedThoughRaised(t) ==
    /\ pc[t] = "done"
    /\ req[t].op = "disconnect"
    /\ req[t].raised
    /\ ~engines[req[t].engine].disposed
    /\ resp[t] = Ok
    /\ SessionEmpty(user_states, AccountOf(t))

C21_Witness ==
    \E t \in Threads : DisconnectedThoughRaised(t)

(***************************************************************************)
(* Pure functions of the catalog and the provisioner.                      *)
(***************************************************************************)
\* the name spelled character by character: each character of the trimmed
\* identifier becomes _at_, _dot_ or its lower-case form; _db follows
RECURSIVE NameByCharacter(_)
NameByCharacter(s) ==
    IF s = <<>> THEN <<"_","d","b">>
    ELSE (IF Head(s) = "@" THEN <<"_","a","t","_">>
          ELSE IF Head(s) = "." THEN <<"_","d","o","t","_">>
          ELSE <<LowerChar(Head(s))>>) \o NameByCharacter(Tail(s))

UserExampleComDb ==
    <<"u","s","e","r","_","a","t","_","e","x","a","m","p","l","e",
      "_","d","o","t","_","c","o","m","_","d","b">>

\* C22: the tenant database name is the trimmed, lower-cased identifier with
\* every @ replaced by _at_ and every . by _dot_, followed by _db; the name of
\* User@Example.com is user_at_example_dot_com_db; repeated calls, and calls
\* on identifiers that differ in case or surrounding whitespace only, return
\* the same name.
C22_TenantNameIsPureFunction ==
    \A t \in Threads :
       req[t].op = "create_dynamic_database_for_user" =>
          \A k \in DOMAIN req[t].db_names :
             /\ req[t].db_names[k] = NameByCharacter(Strip(req[t].user_identifier))
             /\ req[t].db_names[k] = req[t].db_names[1]
             /\ req[t].user_identifier = UserExampleCom =>
                   req[t].db_names[k] = UserExampleComDb
             /\ \A other \in Identifiers :
                   Lower(Strip(other)) = Lower(Strip(req[t].user_identifier)) =>
                      DynamicDbName(other) = req[t].db_names[k]

\* the name of User@Example.com has been returned twice
C22_Witness ==
    \E t \in Threads :
       /\ req[t].op = "create_dynamic_database_for_user"
       /\ req[t].user_identifier = UserExampleCom
       /\ req[t].db_names = <<UserExampleComDb, UserExampleComDb>>

\* the statement names the table in backticks / without any backtick
BacktickQuoted(stmt, table) == Contains(stmt, <<Backtick>> \o table \o <<Backtick>>)
Unquoted(stmt, table) == Contains(stmt, table) /\ Backtick \notin Range(stmt)

PreviewBuilt(t) == pc[t] = "pv_built" /\ req[t].op = "preview"

\* preview is a list of rows that renders the rows given, in order: NULL in
\* place of each NaN cell, every other cell as it is
RendersRows(preview, rows) ==
    /\ preview.kind = "list"
    /\ DOMAIN preview.items = DOMAIN rows
    /\ \A i \in DOMAIN rows :
          /\ preview.items[i].kind = "dict"
          /\ DOMAIN preview.items[i].items = DOMAIN rows[i]
          /\ \A c \in DOMAIN rows[i] :
                preview.items[i].items[c] =
                   IF IsNan(rows[i][c]) THEN None ELSE rows[i][c]

\* C24: a preview returned by load_tables or load_user_tables_with_preview
\* holds no NaN: each NaN cell of the rows it shows is rendered as null, every
\* other value is passed through unchanged.
C24_PreviewHasNoNaN ==
    \A t \in Threads :
       (PreviewBuilt(t) /\ req[t].table # <<>>) =>
          /\ RendersRows(req[t].load_tables, FirstRows(req[t].table, 10))
          /\ RendersRows(req[t].load_user_tables_with_preview,
                         FirstRows(req[t].table, 20))

\* both previews of a table with a NaN next to the string "nan" are built
C24_Witness ==
    \E t \in Threads :
       /\ PreviewBuilt(t)
       /\ Len(req[t].table) = 2
       /\ req[t].table[2]["a"] = NaN
       /\ req[t].table[2]["b"] = Scalar("str", <<"n","a","n">>)
       /\ req[t].load_tables.items[2].items["a"] = None
       /\ req[t].load_user_tables_with_preview.items[2].items["b"] =
             Scalar("str", <<"n","a","n">>)

\* C25: every preview of load_tables and load_user_tables_with_preview holds
\* at most the first 10 rows of the table, and an empty table yields the
\* no-data marker instead of an empty row list.
C25_PreviewFirstTenRows ==
    \A t \in Threads :
       PreviewBuilt(t) =>
          IF req[t].table = <<>>
          THEN /\ req[t].load_tables = EmptyTableMarker
               /\ req[t].load_user_tables_with_preview = EmptyTableMarker
          ELSE /\ RendersRows(req[t].load_tables, FirstRows(req[t].table, 10))
               /\ RendersRows(req[t].load_user_tables_with_preview,
                              FirstRows(req[t].table, 10))

\* the substrings the two except clauses look for in the lower-cased message
MySqlSubstrings ==
    {<<"a","c","c","e","s","s"," ","d","e","n","i","e","d">>,
     <<"a","u","t","h","e","n","t","i","c","a","t","i","o","n"," ","f","a","i","l","e","d">>,
     <<"u","n","k","n","o","w","n"," ","d","a","t","a","b","a","s","e">>,
     <<"c","a","n","'","t"," ","c","o","n","n","e","c","t">>,
     <<"c","o","n","n","e","c","t","i","o","n"," ","r","e","f","u","s","e","d">>,
     <<"t","i","m","e","o","u","t">>, <<"n","o","t"," ","k","n","o","w","n">>,
     <<"s","s","l">>,
     <<"t","o","o"," ","m","a","n","y"," ","c","o","n","n","e","c","t","i","o","n","s">>,
     <<"c","o","u","l","d"," ","n","o","t"," ","c","o","n","n","e","c","t">>,
     <<"f","a","i","l","e","d"," ","t","o"," ","e","s","t","a","b","l","i","s","h">>}
VerticaSubstrings ==
    {<<"s","s","l">>, <<"t","l","s">>,
     <<"a","u","t","h","e","n","t","i","c","a","t","i","o","n"," ","f","a","i","l","e","d">>,
     <<"i","n","v","a","l","i","d"," ","u","s","e","r">>,
     <<"c","o","n","n","e","c","t","i","o","n"," ","r","e","f","u","s","e","d">>,
     <<"t","i","m","e","o","u","t">>, <<"n","o","t"," ","f","o","u","n","d">>}
MatchesNone(e, substrings) == \A sub \in substrings : ~Contains(Lower(e), sub)

\* C26: a probe failure whose message matches none of the known substrings is
\* reported with status 400 and a detail that carries the raw driver message,
\* on the MySQL path and on the Vertica path of connect_db.
C26_UnmatchedErrorCarriesMessage ==
    \A t \in Threads :
       (pc[t] = "ce_raised" /\ req[t].op = "probe" /\ req[t].e # <<>>) =>
          /\ MatchesNone(req[t].e, MySqlSubstrings) =>
                (req[t].mysql.status = 400 /\ Contains(req[t].mysql.detail, req[t].e))
          /\ MatchesNone(req[t].e, VerticaSubstrings) =>
                (req[t].vertica.status = 400
                 /\ Contains(req[t].vertica.detail, req[t].e))

\* the schemas of a listing whose tables were enumerated
Enumerated(catalog) ==
    {i \in DOMAIN catalog : ~catalog[i].is_system_schema /\ ~catalog[i].raises}

\* C27: on a Vertica engine list_tables returns the identifiers schema.table
\* of the tables of every non-system schema whose enumeration succeeded, and
\* no others; a schema whose enumeration fails takes nothing away from the
\* schemas before and after it.
C27_VerticaListingSkipsFailedSchema ==
    \A t \in Threads :
       (pc[t] = "vl_listed" /\ req[t].op = "list_tables" /\ req[t].schemas_listed) =>
          Range(req[t].tables) =
             UNION {{req[t].catalog[i].name \o <<".">> \o req[t].catalog[i].tables[k] :
                        k \in DOMAIN req[t].catalog[i].tables} :
                       i \in Enumerated(req[t].catalog)}

\* a listing in which a failing schema stands before one that was enumerated
C27_Witness ==
    \E t \in Threads :
       /\ pc[t] = "vl_listed"
       /\ req[t].op = "list_tables"
       /\ req[t].schemas_listed
       /\ Len(req[t].catalog) = 2
       /\ ~req[t].catalog[1].is_system_schema
       /\ req[t].catalog[1].raises
       /\ 2 \in Enumerated(req[t].catalog)
       /\ req[t].tables = Qualified(req[t].catalog[2])

\* C28: reset requests of one email on two threads, their prune, check and
\* append steps interleaved.  The window of the email never holds more than
\* five timestamps younger than 3600 s, and no six passcodes are issued to the
\* email within one rolling hour.
C28_ConcurrentResetRateLimit ==
    /\ \A e \in DOMAIN reset_otp_tracker :
          Len(PruneWindow(reset_otp_tracker[e], now)) <= RESET_MAX_PER_HOUR
    /\ \A e \in DOMAIN admitted :
          Cardinality(AdmittedWithin(e, now)) <= RESET_MAX_PER_HOUR

\* a verify_signup_otp call that has persisted its Account: it is about to
\* return the session token, or has returned it
SignupAccepted(t) ==
    /\ req[t].op = "verify_signup_otp"
    /\ pc[t] = "vs_token" \/ (pc[t] = "done" /\ resp[t] = Ok)

\* C29: two verify_signup_otp calls with the same valid code, interleaved.  At
\* most one Account is persisted for the pending email, at most one of the
\* calls returns a session token, and the other one ends in an error response.
C29_ConcurrentSignupVerification ==
    /\ \A i, j \in DOMAIN users : users[i].email = users[j].email => i = j
    /\ \A t, u \in Threads :
          (/\ t # u
           /\ req[t].op = "verify_signup_otp" /\ req[u].op = "verify_signup_otp"
           /\ req[t].otp_code = req[u].otp_code
           /\ SignupAccepted(t))
             => /\ ~SignupAccepted(u)
                /\ pc[u] = "done" => resp[u].status >= 400

\* C29 witness: both calls read the pending record before either consumed it;
\* one has returned the token, the other the signup error; one Account exists.
C29_Witness ==
    \E t, u \in Threads :
        /\ t # u
        /\ now = 0
        /\ pc[t] = "done" /\ pc[u] = "done"
        /\ req[t].op = "verify_signup_otp" /\ req[u].op = "verify_signup_otp"
        /\ req[t].otp_code = req[u].otp_code
        /\ "data" \in DOMAIN req[t] /\ "data" \in DOMAIN req[u]
        /\ resp[t] = Ok
        /\ resp[u] = Response(500, "SIGNUP_ERROR")
        /\ Len(users) = 1
        /\ tenant_dbs = {DynamicDbName(users[1].email)}

WeakPassword == Response(422, "WEAK_PASSWORD")
UserNotFound == Response(404, "USER_NOT_FOUND")

\* thread t ends a verify_reset_otp call with an error response in this step
ResetVerifyFails(t) ==
    /\ pc[t] # "done" /\ pc'[t] = "done"
    /\ req'[t].op = "verify_reset_otp"
    /\ resp'[t].status >= 400

\* C30: verify_reset_otp checks, in this order, no record, code mismatch,
\* expiry, credential complexity, account lookup.  Every failing call leaves
\* the users table, and so the credential hash, as it was; a mismatch or a
\* complexity failure leaves the reset record in the store, so that a later
\* call with the record's code and an acceptable credential goes on to succeed
\* while the record is unexpired; an expired record presented with a wrong code
\* yields the mismatch error and stays in the store.
C30_ResetVerificationOrder ==
    [][\A t \in Threads :
        /\ (pc[t] = "idle" /\ pc'[t] # "idle" /\ req'[t].op = "verify_reset_otp")
              => IF req'[t].email \notin DOMAIN reset_otp_store
                 THEN pc'[t] = "done" /\ resp'[t] = NoRecord
                 ELSE IF reset_otp_store[req'[t].email].otp # req'[t].otp
                 THEN /\ pc'[t] = "done" /\ resp'[t] = InvalidOtp
                      /\ reset_otp_store' = reset_otp_store
                 ELSE pc'[t] = "vr_expiry"
        /\ (pc[t] = "vr_expiry" /\ pc'[t] # pc[t])
              => IF now - req[t].record.timestamp > FiveMinutes
                 THEN pc'[t] = "vr_evict"
                 ELSE IF ~validate_password_complexity(req[t].new_password)
                 THEN /\ pc'[t] = "done" /\ resp'[t] = WeakPassword
                      /\ reset_otp_store' = reset_otp_store
                      /\ req[t].email \in DOMAIN reset_otp_store'
                 ELSE pc'[t] = "vr_commit"
        /\ (pc[t] = "vr_evict" /\ pc'[t] # pc[t])
              => pc'[t] = "done" /\ resp'[t] = OtpExpired
        /\ (pc[t] = "vr_commit" /\ pc'[t] # pc[t])
              => IF get_user_by_email(req[t].email) = {}
                 THEN pc'[t] = "done" /\ resp'[t] = UserNotFound
                 ELSE /\ pc'[t] = "vr_pop"
                      /\ \A i \in get_user_by_email(req[t].email) :
                            users'[i].hashed_password =
                               get_password_hash(req[t].new_password)
        /\ (pc[t] = "vr_pop" /\ pc'[t] # pc[t])
              => pc'[t] = "done" /\ resp'[t] = Ok
        /\ ResetVerifyFails(t) => users' = users
      ]_vars

\* C30 witness: a wrong code has just been rejected as a mismatch although
\* the email's record is past its lifetime; the record is still in the store
\* and the credential is the one of the signup.
C30_Witness ==
    \E t \in Threads :
        /\ pc[t] = "done"
        /\ req[t].op = "verify_reset_otp"
        /\ resp[t] = InvalidOtp
        /\ req[t].email \in DOMAIN reset_otp_store
        /\ reset_otp_store[req[t].email].otp # req[t].otp
        /\ now - reset_otp_store[req[t].email].timestamp > FiveMinutes
        /\ \A i \in get_user_by_email(req[t].email) :
              users[i].hashed_password = get_password_hash(PwStrong)

\* C31: once delete_table has returned success for an identifier, the working
\* table sequence of the account does not hold the identifier while the table
\* is absent from the database, also when a load of the same account runs
\* beside the deletion.
C31_DeletedTableLeavesSequence ==
    \A t \in Threads :
       (pc[t] = "done" /\ req[t].op = "delete_table" /\ resp[t] = Ok) =>
          LET key == SessionKey(req[t].current_user)
          IN  key \in DOMAIN user_states =>
                 \/ req[t].table_name \notin Range(user_states[key].table_names)
                 \/ req[t].table_name \in
                       Range(TablesOf(users[req[t].current_user].dynamic_db))

\* thread t ends a connect_db call with an error response in this step
ConnectFails(t) ==
    /\ pc[t] # "done" /\ pc'[t] = "done"
    /\ req'[t].op = "connect_db"
    /\ resp'[t].status >= 400

\* C32: connect_db stores an engine in the account's state only after the
\* liveness probe has succeeded.  A call that ends in an error response leaves
\* the session store, and so the engine reference and both table sequences of
\* the account, as they were; the engine a call stores is one whose probe
\* reached its database, and the store leaves both table sequences alone.
C32_ConnectStoresAfterProbe ==
    [][\A t \in Threads :
        /\ ConnectFails(t) => user_states' = user_states
        /\ (pc[t] = "cd_store" /\ pc'[t] # pc[t]) =>
              LET key == SessionKey(req[t].current_user)
                  before == get_user_state(key)[key]
              IN  /\ resp'[t] = Ok
                  /\ user_states'[key].personal_engine = req[t].engine
                  /\ DatabaseExists(engines[req[t].engine].dialect,
                                    engines[req[t].engine].database)
                  /\ user_states'[key].table_names = before.table_names
                  /\ user_states'[key].original_table_names =
                        before.original_table_names
      ]_vars

\* C32 witness: a connect_db call has just failed for an account whose state
\* holds an engine and loaded tables from an earlier call; they are still there.
C32_Witness ==
    \E t \in Threads :
        /\ pc[t] = "done"
        /\ req[t].op = "connect_db"
        /\ resp[t] = ConnectionError
        /\ LET key == SessionKey(req[t].current_user)
           IN  /\ key \in DOMAIN user_states
               /\ user_states[key].personal_engine # 0
               /\ ~engines[user_states[key].personal_engine].disposed
               /\ user_states[key].table_names # <<>>
               /\ user_states[key].original_table_names # <<>>

\* thread t takes a step of the preload scheduled by its login
PreloadStep(t) ==
    /\ pc[t] \in {"ic_connect", "ic_store"}
    /\ pc'[t] # pc[t]

\* C33: the preload after a login cannot affect the login result and is
\* all-or-nothing.  The token response is determined when the preload is
\* scheduled and no step of the preload changes it; a preload that fails (no
\* tenant database, failed connection, exception while listing or loading)
\* leaves the session store as it was; a preload that succeeds sets the
\* engine, the working sequence and the original sequence in one step.
C33_PreloadAllOrNothing ==
    [][\A t \in Threads :
        /\ (pc[t] = "idle" /\ pc'[t] = "ic_connect") => resp'[t] = Ok
        /\ PreloadStep(t) => (resp[t] = Ok /\ resp'[t] = Ok)
        /\ (PreloadStep(t) /\ req'[t].preload = "failed")
              => user_states' = user_states
        /\ (PreloadStep(t) /\ req'[t].preload = "connected")
              => user_states' = user_states
        /\ (PreloadStep(t) /\ req'[t].preload = "stored")
              => LET key == SessionKey(req[t].current_user)
                 IN  /\ req[t].engine # 0
                     /\ user_states'[key].personal_engine = req[t].engine
                     /\ user_states'[key].table_names = list_tables(req[t].engine)
                     /\ user_states'[key].original_table_names =
                           list_tables(req[t].engine)
      ]_vars

\* C33 witness: the preload of a login connected to the tenant database and
\* then failed while listing or loading; the login has its token response and
\* the account's state still holds the engine and the tables of an earlier call.
C33_Witness ==
    \E t \in Threads :
        /\ pc[t] = "done"
        /\ req[t].op = "login"
        /\ "preload" \in DOMAIN req[t]
        /\ req[t].preload = "failed"
        /\ req[t].engine # 0
        /\ resp[t] = Ok
        /\ LET key == SessionKey(req[t].current_user)
           IN  /\ key \in DOMAIN user_states
               /\ user_states[key].personal_engine \notin {0, req[t].engine}
               /\ user_states[key].table_names # <<>>
               /\ user_states[key].original_table_names # <<>>

\* a verify_signup_otp call has created database d and has not yet committed
BeingProvisioned(d) ==
    \E t \in Threads :
        /\ pc[t] = "vs_commit"
        /\ DynamicDbName(req[t].data.email) = d

\* C34: provisioning order.  The tenant database of every persisted Account
\* exists; and every tenant database created by verify_signup_otp has an
\* owning persisted Account once the call that created it has finished, with
\* success or with an error.
C34_ProvisioningOrder ==
    /\ \A i \in DOMAIN users : users[i].dynamic_db \in tenant_dbs
    /\ \A d \in tenant_dbs :
          \/ \E i \in DOMAIN users : users[i].dynamic_db = d
          \/ BeingProvisioned(d)

====
